---- MODULE Spec2Model ----
(***************************************************************************)
(* The Nexus parser of gotree (io/nexus/nexus_parser.go) as a state        *)
(* machine.  One step is one call of scanIgnoreWhitespace together with    *)
(* the handling of the token it returns at that place of the parser; the   *)
(* loop over the tokens of a tree string (lines 268-277) takes one step    *)
(* for the scan and one for the loop test and body.                        *)
(* The scanner is the environment: it hands out the tokens of a finite     *)
(* document one by one and then EOF for ever.                              *)
(*                                                                         *)
(* Strings are sequences of one-character strings, so that += is \o,       *)
(* len() is Len and []rune(s)[0] is s[1].                                  *)
(*                                                                         *)
(* A block parser's results are assigned to Parse's variables when it      *)
(* returns (lines 100-106) and Parse returns at once when it reports an    *)
(* error (line 113), so nothing reads the old values after a block of the  *)
(* same kind was entered: the model lets the block parsers work on         *)
(* Parse's variables directly, reset at entry as lines 185, 235-236 and    *)
(* 297-304 reset them.                                                     *)
(*                                                                         *)
(* The module also holds the node lists of package tree (tree/node.go:     *)
(* addChild, delNeighbor, NodeIndex, Parent, ParentEdge), Node.Newick as   *)
(* a machine with an explicit stack of calls, and the channel between the  *)
(* goroutine of readTrees (cmd/root.go) and the loop of a command, the     *)
(* Parser's buffer on its own (scan, unscan, scanIgnoreWhitespace on any   *)
(* stream of tokens) and the loop of rename in automatic mode.  Each part  *)
(* has its own specifications; the variables of the other parts stay at    *)
(* rest in them.                                                           *)
(***************************************************************************)
EXTENDS Integers, Sequences, FiniteSets, TLC

\* ------------------------------------------------------------ bounds
\* Identifier and numeric tokens in the document, for each specification.
MaxLits == 3
MaxLitsLive == 1
MaxLitsTrees == 4
MaxLitsData == 4

\* ------------------------------------------------------------ tokens
\* An error: its message and the index the message holds (-1 for none).
At(m, i) == [msg |-> m, at |-> i]
E(m) == At(m, -1)
NoErr == E("nil")

LitA == <<"A">>
LitB == <<"B">>
LitAA == <<"A", "A">>
LitDna == <<"d", "n", "a">>

\* The kinds with a fixed literal, and that literal.
FixedLit ==
  [ILLEGAL |-> <<"?">>, ENDOFLINE |-> <<"\n">>, ENDOFCOMMAND |-> <<";">>,
   EQUAL |-> <<"=">>, NEXUS |-> <<"#", "N", "E", "X", "U", "S">>,
   BEGIN |-> <<"B", "E", "G", "I", "N">>, END |-> <<"E", "N", "D">>,
   TAXA |-> <<"T", "A", "X", "A">>, TREES |-> <<"T", "R", "E", "E", "S">>,
   TREE |-> <<"T", "R", "E", "E">>, DATA |-> <<"D", "A", "T", "A">>,
   DIMENSIONS |-> <<"D", "I", "M", "E", "N", "S", "I", "O", "N", "S">>,
   FORMAT |-> <<"F", "O", "R", "M", "A", "T">>,
   MATRIX |-> <<"M", "A", "T", "R", "I", "X">>,
   NTAX |-> <<"N", "T", "A", "X">>, NCHAR |-> <<"N", "C", "H", "A", "R">>,
   DATATYPE |-> <<"D", "A", "T", "A", "T", "Y", "P", "E">>,
   MISSING |-> <<"M", "I", "S", "S", "I", "N", "G">>,
   GAP |-> <<"G", "A", "P">>,
   TAXLABELS |-> <<"T", "A", "X", "L", "A", "B", "E", "L", "S">>]

Tok(k, l) == [tok |-> k, lit |-> l]
\* The literal of EOF is the empty string.
EofTok == Tok("EOF", <<>>)
WsTok == Tok("WS", <<" ">>)
FixedToks == {Tok(k, FixedLit[k]) : k \in DOMAIN FixedLit}
Fixed(kinds) == {Tok(k, FixedLit[k]) : k \in kinds}
Idents(lits) == {Tok("IDENT", l) : l \in lits}
Numerics(lits) == {Tok("NUMERIC", l) : l \in lits}
IsLit(t) == t.tok \in {"IDENT", "NUMERIC"}
NoTok == Tok("none", <<>>)

\* The tokens the documents of each specification are written with.
AllTokens == FixedToks \cup Idents({LitA, LitDna}) \cup Numerics({<<"1">>})
TreesTokens ==
  Fixed({"NEXUS", "BEGIN", "END", "ENDOFCOMMAND", "ENDOFLINE", "EQUAL",
         "TAXA", "TAXLABELS", "TREES", "TREE"})
    \cup Idents({LitA, LitB, LitAA})
DataTokens ==
  Fixed({"NEXUS", "BEGIN", "END", "ENDOFCOMMAND", "ENDOFLINE", "EQUAL",
         "DATA", "DIMENSIONS", "NTAX", "NCHAR", "MATRIX"})
    \cup Idents({LitA, LitAA}) \cup Numerics({<<"1">>, <<"2">>})

VARIABLES
  pc,          \* the place of the parser
  block,       \* the block parser that is running: none, taxa, trees, data, other
  input,       \* the tokens the document is written with (it never changes)
  buf,         \* p.buf.tok: the kind of the last token scan() returned (BufKind)
  eof,         \* the scanner has reached the end of the input
  fuel,        \* identifier and numeric tokens the document still holds
  err,         \* err of the running block parser
  key,         \* the key of the DIMENSIONS / FORMAT entry being read
  lit2,        \* parseTrees: the tree name
  tree,        \* parseTrees: the tree string
  tok4,        \* parseTrees: the token the loop of the tree string tests (Tok4)
  taxaDecl,    \* taxlabels != nil
  taxlabels,
  treesDecl,   \* treenames != nil && treestrings != nil
  treenames,
  treestrings,
  dataDecl,    \* names != nil && sequences != nil
  names,
  sequences,
  nchar,
  ntax,
  datatype,
  missing,
  gap,
  resDoc,      \* what Parse returned: none (not yet), nil, nexus
  resErr,
  rejected,    \* the rows the alignment collaborator rejects (AddSequence)
  nonDefault,  \* history: a FORMAT command gave GAP or MISSING another character than the default
  last,        \* history: the block parser that returned without an error in the last step
  neigh,       \* tree.Node: the neighbor list of every node
  br,          \* tree.Node: the edge list of every node
  left,        \* tree.Edge: the left endpoint of every edge
  right,       \* tree.Edge: the right endpoint of every edge
  added,       \* history: the (node, edge) pairs added to every node and not removed
  call,        \* the last call on a node and what it returned
  name,        \* tree.Node: the name of every node
  comment,     \* tree.Node: the comments of every node
  depth,       \* tree.Node: the depth of every node
  support,     \* tree.Edge: the support of every edge, in millionths
  length,      \* tree.Edge: the length of every edge, in millionths
  start,       \* Newick: the node the outermost call is made on
  from,        \* Newick: the came-from node of the outermost call
  stack,       \* Newick: the calls in progress, the innermost last
  newick,      \* Newick: the buffer written to
  outs,        \* history: the buffers of the outermost calls that have returned
  entered,     \* history: the calls made since the outermost call
  returned,    \* history: the calls that have returned since the outermost call
  infile,      \* readTrees: what is left to read of the input
  reader,      \* readTrees: where the goroutine of lines 99-104 is
  intreesChan, \* readTrees: the items in the channel
  closed,      \* readTrees: the channel is closed
  exited,      \* the process has ended
  cmd,         \* the command that ranges over the channel
  consumer,    \* where the loop of the command is
  cur,         \* the item the loop body works on
  published,   \* history: the items sent to the channel
  got,         \* history: the items received from the channel
  used,        \* history: the places in got of the items whose Tree was used
  stream,      \* Parser.s: the tokens the underlying scanner hands out, then EOF
  pos,         \* Parser.s: the tokens read from the underlying scanner
  pbuf,        \* Parser.buf: the last token read (tok with lit) and n
  ret,         \* the last call on the Parser's buffer and the token it returned
  ops,         \* history: the calls of scan() and unscan(), in order
  out,         \* history: the tokens the calls of scan() returned, in order
  namemap,     \* rename: the old names and their new names
  curid,       \* rename: the number of the next identifier
  autorenamelength, \* rename: --length, at least 5
  flags,       \* rename: --tips and --internal
  intrees,     \* rename: the items the channel still holds for the loop
  todo,        \* rename: the nodes of the current tree the loop has not reached
  index,       \* rename: i, the place of the next node in tr.Tree.Nodes()
  step,        \* rename: where the loop over the trees is
  ids          \* history: the names the nodes came with, each with the identifier it got

scanner == <<input, buf, eof, fuel>>
locals == <<err, key, lit2, tree, tok4>>
taxa == <<taxaDecl, taxlabels>>
trees == <<treesDecl, treenames, treestrings>>
data == <<dataDecl, names, sequences, nchar, ntax, datatype, missing, gap>>
result == <<resDoc, resErr, rejected>>
history == <<nonDefault, last>>
parser == <<pc, block, scanner, locals, taxa, trees, data, result, history>>
graph == <<neigh, br, left, right>>
nodes == <<graph, added, call>>
fields == <<name, comment, depth, support, length>>
render == <<fields, start, from, stack, newick, outs, entered, returned>>
pipe == <<infile, reader, intreesChan, closed, exited, cmd, consumer, cur, published,
          got, used>>
lexer == <<stream, pos, pbuf, ret, ops, out>>
renamer == <<namemap, curid, autorenamelength, flags, intrees, todo, index, step, ids>>
tools == <<lexer, renamer>>
others == <<nodes, render, pipe, tools>>
vars == <<parser, others>>

\* ------------------------------------------------------------ scanner
\* What the scanner can hand out next: EOF for ever once it was reached;
\* a run of whitespace is one WS token.
Stream ==
  IF eof THEN {EofTok}
  ELSE {t \in input : fuel > 0 \/ ~IsLit(t)} \cup {EofTok, WsTok}

\* scanIgnoreWhitespace on the next two tokens of the scanner: the second
\* is read only when the first is WS.
scanIgnoreWhitespace(t1, t2) == IF t1.tok = "WS" THEN t2 ELSE t1

ScanResults ==
  {scanIgnoreWhitespace(t1, t2) : t1 \in Stream, t2 \in Stream \ {WsTok}}

\* The kinds the skipping parsers tell apart; buf keeps the others as one.
BufKind(k) == IF k \in {"ENDOFCOMMAND", "END", "EOF", "ILLEGAL"} THEN k ELSE "other"

\* scan(): the token is saved to the buffer; unscan is never called by
\* Parse, so buf.n stays 0 and every scan reads the scanner.
scan(t) ==
  /\ buf' = BufKind(t.tok)
  /\ eof' = (eof \/ t.tok = "EOF")
  /\ fuel' = IF IsLit(t) THEN fuel - 1 ELSE fuel
  /\ input' = input

\* ------------------------------------------------------------ control
\* Lines 63-64 and 298-299: the missing and gap characters Parse and a DATA
\* block start with.
DefaultChar(k) == IF k = "MISSING" THEN "*" ELSE "-"

ResetLocals ==
  /\ err' = NoErr
  /\ key' = "none"
  /\ lit2' = <<>>
  /\ tree' = <<>>
  /\ tok4' = NoTok

Goto(p) == pc' = p /\ last' = "none" /\ UNCHANGED <<block, result>>

\* return nil, err
Fail(e) ==
  /\ pc' = "done"
  /\ resDoc' = "nil"
  /\ resErr' = e
  /\ last' = "none"
  /\ UNCHANGED <<block, rejected>>

\* A block parser returns e to Parse (lines 113-116).
BlockReturn(e) ==
  IF e # NoErr THEN Fail(e)
  ELSE pc' = "top" /\ block' = "none" /\ last' = block /\ UNCHANGED result

\* ------------------------------------------------------------ tree.Node at rest
\* The nodes and edges of package tree that the model builds its graphs of.
\* Nil is the nil pointer of either type.
Nil == "nil"
Nodes == {"p", "c"}
Edges == {"e1", "e2"}

NoCall == [op |-> "none", n |-> Nil, arg |-> Nil, edge |-> Nil, idx |-> -1, len |-> 0, err |-> NoErr]

\* No call of Newick on nodes and edges with the fields of new ones.
NoRender ==
  /\ name = [n \in Nodes |-> <<>>]
  /\ comment = [n \in Nodes |-> <<>>]
  /\ depth = [n \in Nodes |-> 0]
  /\ support = [e \in Edges |-> 0]
  /\ length = [e \in Edges |-> 0]
  /\ start = Nil
  /\ from = Nil
  /\ stack = <<>>
  /\ newick = <<>>
  /\ outs = <<>>
  /\ entered = <<>>
  /\ returned = <<>>

\* No node has a neighbor and no edge has an endpoint.
NoLists ==
  /\ neigh = [n \in Nodes |-> <<>>]
  /\ br = [n \in Nodes |-> <<>>]
  /\ left = [e \in Edges |-> Nil]
  /\ right = [e \in Edges |-> Nil]
  /\ added = [n \in Nodes |-> <<>>]
  /\ call = NoCall

\* The package tree at rest.
NoNodes == NoLists /\ NoRender

\* A received item of the channel: a tree, or nil and the error of reading it.
Item(k, e) == [id |-> k, tree |-> IF e = NoErr THEN k ELSE 0, err |-> e]
NoItem == Item(0, NoErr)

\* No command reads trees.
NoPipe ==
  /\ infile = <<>>
  /\ reader = "none"
  /\ intreesChan = <<>>
  /\ closed = FALSE
  /\ exited = FALSE
  /\ cmd = "none"
  /\ consumer = "none"
  /\ cur = NoItem
  /\ published = <<>>
  /\ got = <<>>
  /\ used = {}

\* The zero value of Token with the empty literal, which Parser.buf holds
\* before the first scan.
ZeroTok == Tok("zero", <<>>)
NoRet == [op |-> "none", tok |-> ZeroTok]

\* No Parser is used on its own.
NoLexer ==
  /\ stream = <<>>
  /\ pos = 0
  /\ pbuf = [tok |-> ZeroTok, n |-> 0]
  /\ ret = NoRet
  /\ ops = <<>>
  /\ out = <<>>

\* No rename command runs.
NoRenamer ==
  /\ namemap = <<>>
  /\ curid = 0
  /\ autorenamelength = 0
  /\ flags = [tips |-> FALSE, internal |-> FALSE]
  /\ intrees = 0
  /\ todo = 0
  /\ index = 0
  /\ step = "none"
  /\ ids = {}

NoTools == NoLexer /\ NoRenamer

\* NewParser and lines 61-67, for a document of at most n identifier and
\* numeric tokens written with the tokens toks.
NewParser(toks, n) ==
  /\ input = toks
  /\ fuel = n
  /\ pc = "start"
  /\ block = "none"
  /\ buf = "none"
  /\ eof = FALSE
  /\ err = NoErr
  /\ key = "none"
  /\ lit2 = <<>>
  /\ tree = <<>>
  /\ tok4 = NoTok
  /\ taxaDecl = FALSE
  /\ taxlabels = {}
  /\ treesDecl = FALSE
  /\ treenames = <<>>
  /\ treestrings = <<>>
  /\ dataDecl = FALSE
  /\ names = <<>>
  /\ sequences = <<>>
  /\ nchar = 0
  /\ ntax = 0
  /\ datatype = LitDna
  /\ missing = DefaultChar("MISSING")
  /\ gap = DefaultChar("GAP")
  /\ resDoc = "none"
  /\ resErr = NoErr
  /\ rejected = {}
  /\ nonDefault = FALSE
  /\ last = "none"

\* A parser on a document, the other components at rest.
InitWith(toks, n) == NewParser(toks, n) /\ NoNodes /\ NoPipe /\ NoTools

Init == InitWith(AllTokens, MaxLits)

\* ------------------------------------------------------------ post-loop checks
\* align.AlphabetFromString: the datatypes with a known alphabet.
KnownDatatypes == {LitDna}

\* The embedded Newick parser and Tree.Tips(), with the punctuation of the
\* tree string left out: every character is the name of one tip, and the
\* empty string is no tree.
NewickFails(s) == s = <<>>
NewickTips(s) == [i \in 1 .. Len(s) |-> <<s[i]>>]

\* A faulty variant of RowErr: a row is refused only when it is shorter than
\* nchar.  C8_RowLength must not hold of it.
RowErr_tooShort(i, rej) ==
  IF Len(sequences[i]) < nchar /\ nchar # -1 THEN At("nchar", i - 1)
  ELSE IF i \in rej THEN At("addseq", i - 1)
  ELSE NoErr

\* Lines 133-138 for row i (1-based; the message holds the 0-based index).
RowErr(i, rej) ==
  IF Len(sequences[i]) # nchar /\ nchar # -1 THEN At("nchar", i - 1)
  ELSE IF i \in rej THEN At("addseq", i - 1)
  ELSE NoErr

\* Lines 132-139, from row i.
RECURSIVE CheckRows(_, _)
CheckRows(i, rej) ==
  IF i > Len(sequences) THEN NoErr
  ELSE IF RowErr(i, rej) # NoErr THEN RowErr(i, rej)
  ELSE CheckRows(i + 1, rej)

\* A faulty variant of CheckAlignment: the matrix is refused only when it has
\* more rows than ntax.  C7_RowCount must not hold of it.
CheckAlignment_rowsAtMost(rej) ==
  IF datatype \notin KnownDatatypes THEN E("datatype")
  ELSE IF Len(names) > ntax /\ ntax # -1 THEN E("ntax")
  ELSE IF CheckRows(1, rej) # NoErr THEN CheckRows(1, rej)
  ELSE IF taxaDecl /\ \E i \in 1 .. Len(names) : names[i] \notin taxlabels THEN E("seqlabel")
  ELSE IF taxaDecl /\ Len(names) # Cardinality(taxlabels) THEN E("seqcount")
  ELSE NoErr

\* A faulty variant of CheckAlignment: an empty label set is taken for no
\* declaration.  C26_EmptyLabelSet must not hold of it.
CheckAlignment_emptyIsNone(rej) ==
  IF datatype \notin KnownDatatypes THEN E("datatype")
  ELSE IF Len(names) # ntax /\ ntax # -1 THEN E("ntax")
  ELSE IF CheckRows(1, rej) # NoErr THEN CheckRows(1, rej)
  ELSE IF taxlabels # {} /\ \E i \in 1 .. Len(names) : names[i] \notin taxlabels THEN E("seqlabel")
  ELSE IF taxlabels # {} /\ Len(names) # Cardinality(taxlabels) THEN E("seqcount")
  ELSE NoErr

\* Lines 125-154.
CheckAlignment(rej) ==
  IF datatype \notin KnownDatatypes THEN E("datatype")
  ELSE IF Len(names) # ntax /\ ntax # -1 THEN E("ntax")
  ELSE IF CheckRows(1, rej) # NoErr THEN CheckRows(1, rej)
  ELSE IF taxaDecl /\ \E i \in 1 .. Len(names) : names[i] \notin taxlabels THEN E("seqlabel")
  ELSE IF taxaDecl /\ Len(names) # Cardinality(taxlabels) THEN E("seqcount")
  ELSE NoErr

\* A faulty variant of CheckTree: the tips are counted but not looked up in
\* the labels.  C6_LabelCrossCheck must not hold of it.
CheckTree_anyTips(i) ==
  LET tips == NewickTips(treestrings[i]) IN
  IF NewickFails(treestrings[i]) THEN At("newick", i - 1)
  ELSE IF taxaDecl /\ Len(tips) # Cardinality(taxlabels)
    THEN At("tipcount", i - 1)
  ELSE NoErr

\* Lines 161-176 for tree i.
CheckTree(i) ==
  LET tips == NewickTips(treestrings[i]) IN
  IF NewickFails(treestrings[i]) THEN At("newick", i - 1)
  ELSE IF taxaDecl /\ \E j \in 1 .. Len(tips) : tips[j] \notin taxlabels
    THEN At("tiplabel", i - 1)
  ELSE IF taxaDecl /\ Len(tips) # Cardinality(taxlabels)
    THEN At("tipcount", i - 1)
  ELSE NoErr

\* Lines 160-178, from tree i.
RECURSIVE CheckTrees(_)
CheckTrees(i) ==
  IF i > Len(treestrings) THEN NoErr
  ELSE IF CheckTree(i) # NoErr THEN CheckTree(i)
  ELSE CheckTrees(i + 1)

Ret(d, e) == [doc |-> d, err |-> e]

\* A faulty variant of PostChecks: the document is returned together with
\* the error of a tree.  C3_DocumentOrError must not hold of it.
PostChecks_docWithError(rej) ==
  IF gap # DefaultChar("GAP") \/ missing # DefaultChar("MISSING") THEN Ret("nil", E("gap"))
  ELSE IF dataDecl /\ CheckAlignment(rej) # NoErr THEN Ret("nil", CheckAlignment(rej))
  ELSE IF treesDecl /\ CheckTrees(1) # NoErr THEN Ret("nexus", CheckTrees(1))
  ELSE Ret("nexus", NoErr)

\* A faulty variant of PostChecks: the document is refused only when both
\* characters differ from the default.  C4_CharactersInEffect must not hold
\* of it.
PostChecks_bothChanged(rej) ==
  IF gap # DefaultChar("GAP") /\ missing # DefaultChar("MISSING") THEN Ret("nil", E("gap"))
  ELSE IF dataDecl /\ CheckAlignment(rej) # NoErr THEN Ret("nil", CheckAlignment(rej))
  ELSE IF treesDecl /\ CheckTrees(1) # NoErr THEN Ret("nil", CheckTrees(1))
  ELSE Ret("nexus", NoErr)

\* Lines 119-180: what Parse returns once the block loop has ended.
PostChecks(rej) ==
  IF gap # DefaultChar("GAP") \/ missing # DefaultChar("MISSING") THEN Ret("nil", E("gap"))
  ELSE IF dataDecl /\ CheckAlignment(rej) # NoErr THEN Ret("nil", CheckAlignment(rej))
  ELSE IF treesDecl /\ CheckTrees(1) # NoErr THEN Ret("nil", CheckTrees(1))
  ELSE Ret("nexus", NoErr)

\* ------------------------------------------------------------ Parse
\* Lines 70-73.
ParseHeader ==
  /\ pc = "start"
  /\ \E t \in ScanResults :
       /\ scan(t)
       /\ IF t.tok # "NEXUS" THEN Fail(E("expected #NEXUS")) ELSE Goto("top")
  /\ UNCHANGED <<locals, taxa, trees, data, nonDefault, others>>

\* Lines 77-88, a token other than EOF: any token that is not ILLEGAL or
\* BEGIN is passed over.
ParseLoop ==
  /\ pc = "top"
  /\ \E t \in ScanResults :
       /\ t.tok # "EOF"
       /\ scan(t)
       /\ IF t.tok = "ILLEGAL" THEN Fail(E("illegal token"))
          ELSE IF t.tok = "BEGIN" THEN Goto("blockName")
          ELSE Goto("top")
  /\ UNCHANGED <<locals, taxa, trees, data, nonDefault, others>>

\* Lines 81-83 and 119-180: EOF ends the loop and the document is checked.
ParseEnd ==
  /\ pc = "top"
  /\ EofTok \in ScanResults
  /\ scan(EofTok)
  /\ \E rej \in SUBSET (1 .. Len(names)) :
       /\ rejected' = rej
       /\ resDoc' = PostChecks(rej).doc
       /\ resErr' = PostChecks(rej).err
  /\ pc' = "done"
  /\ last' = "none"
  /\ UNCHANGED <<block, locals, taxa, trees, data, nonDefault, others>>

\* Line 90: the name of the block, kept in key as far as the switch of line
\* 97 tells names apart.
BlockName ==
  /\ pc = "blockName"
  /\ \E t \in ScanResults :
       /\ scan(t)
       /\ key' = IF t.tok \in {"TAXA", "TREES", "DATA"} THEN t.tok ELSE "other"
  /\ Goto("blockSemi")
  /\ UNCHANGED <<err, lit2, tree, tok4, taxa, trees, data, nonDefault, others>>

BlockBegin_keepsEarlier ==
  /\ pc = "blockSemi"
  /\ \E t \in ScanResults :
       /\ scan(t)
       /\ IF t.tok # "ENDOFCOMMAND"
          THEN Fail(E("expected ;")) /\ UNCHANGED <<taxa, trees, data>>
          ELSE /\ UNCHANGED result /\ last' = "none"
               /\ CASE key = "TAXA" ->
                         /\ pc' = "taxa" /\ block' = "taxa"
                         /\ taxaDecl' = TRUE /\ taxlabels' = {}
                         /\ UNCHANGED <<trees, data>>
                    [] key = "TREES" ->
                         /\ pc' = "trees" /\ block' = "trees"
                         /\ treesDecl' = TRUE /\ UNCHANGED <<treenames, treestrings>>
                         /\ UNCHANGED <<taxa, data>>
                    [] key = "DATA" ->
                         /\ pc' = "data" /\ block' = "data"
                         /\ dataDecl' = TRUE /\ names' = <<>> /\ sequences' = <<>>
                         /\ UNCHANGED <<nchar, ntax, datatype, missing, gap>>
                         /\ UNCHANGED <<taxa, trees>>
                    [] OTHER ->
                         /\ pc' = "ublock" /\ block' = "other"
                         /\ UNCHANGED <<taxa, trees, data>>
  /\ ResetLocals
  /\ UNCHANGED <<nonDefault, others>>

\* Lines 92-111: the ; and the entry of the block parser.
BlockBegin ==
  /\ pc = "blockSemi"
  /\ \E t \in ScanResults :
       /\ scan(t)
       /\ IF t.tok # "ENDOFCOMMAND"
          THEN Fail(E("expected ;")) /\ UNCHANGED <<taxa, trees, data>>
          ELSE /\ UNCHANGED result /\ last' = "none"
               /\ CASE key = "TAXA" ->
                         /\ pc' = "taxa" /\ block' = "taxa"
                         /\ taxaDecl' = TRUE /\ taxlabels' = {}
                         /\ UNCHANGED <<trees, data>>
                    [] key = "TREES" ->
                         /\ pc' = "trees" /\ block' = "trees"
                         /\ treesDecl' = TRUE /\ treenames' = <<>> /\ treestrings' = <<>>
                         /\ UNCHANGED <<taxa, data>>
                    [] key = "DATA" ->
                         /\ pc' = "data" /\ block' = "data"
                         /\ dataDecl' = TRUE /\ names' = <<>> /\ sequences' = <<>>
                         /\ nchar' = -1 /\ ntax' = -1
                         /\ datatype' = LitDna /\ missing' = DefaultChar("MISSING") /\ gap' = DefaultChar("GAP")
                         /\ UNCHANGED <<taxa, trees>>
                    [] OTHER ->
                         /\ pc' = "ublock" /\ block' = "other"
                         /\ UNCHANGED <<taxa, trees, data>>
  /\ ResetLocals
  /\ UNCHANGED <<nonDefault, others>>

\* ------------------------------------------------------------ parseTaxa
\* Lines 189-199 and 205, 222-228: the first token of a command.
TaxaLoop ==
  /\ pc = "taxa"
  /\ \E t \in ScanResults :
       /\ scan(t)
       /\ CASE t.tok = "ENDOFLINE" -> Goto("taxa")
            [] t.tok = "ILLEGAL" -> BlockReturn(E("illegal token"))
            [] t.tok = "EOF" -> BlockReturn(E("EOF in TAXA block"))
            [] t.tok = "END" -> Goto("taxaEnd")
            [] t.tok = "TAXLABELS" -> Goto("taxlabels")
            [] OTHER -> Goto("cmd")
  /\ UNCHANGED <<locals, taxa, trees, data, nonDefault, others>>

\* Lines 200-204.
TaxaEnd ==
  /\ pc = "taxaEnd"
  /\ \E t \in ScanResults :
       /\ scan(t)
       /\ BlockReturn(IF t.tok # "ENDOFCOMMAND" THEN E("End token without ;") ELSE NoErr)
  /\ UNCHANGED <<locals, taxa, trees, data, nonDefault, others>>

\* Lines 207-221.
Taxlabels ==
  /\ pc = "taxlabels"
  /\ \E t \in ScanResults :
       /\ scan(t)
       /\ CASE t.tok = "ENDOFCOMMAND" -> Goto("taxa") /\ UNCHANGED taxlabels
            [] t.tok = "IDENT" -> Goto("taxlabels") /\ taxlabels' = taxlabels \cup {t.lit}
            [] OTHER -> BlockReturn(E("Unknown token in taxlabel list")) /\ UNCHANGED taxlabels
  /\ UNCHANGED <<locals, taxaDecl, trees, data, nonDefault, others>>

\* ------------------------------------------------------------ parseUnsupportedCommand
\* Lines 489-501, called from the default branch of a block parser (lines
\* 223, 285, 475), which stops on its error and goes on otherwise.
UnsupportedCommand ==
  /\ pc = "cmd"
  /\ \E t \in ScanResults :
       /\ scan(t)
       /\ CASE t.tok = "ILLEGAL" -> BlockReturn(E("illegal token"))
            [] t.tok = "EOF" -> BlockReturn(E("EOF in command"))
            [] t.tok = "ENDOFCOMMAND" -> Goto(block)
            [] OTHER -> Goto("cmd")
  /\ UNCHANGED <<locals, taxa, trees, data, nonDefault, others>>

\* ------------------------------------------------------------ parseUnsupportedBlock
\* Lines 524-532, 539.
UnsupportedBlock ==
  /\ pc = "ublock"
  /\ \E t \in ScanResults :
       /\ scan(t)
       /\ CASE t.tok = "ILLEGAL" -> BlockReturn(E("illegal token"))
            [] t.tok = "EOF" -> BlockReturn(E("EOF in block"))
            [] t.tok = "END" -> Goto("ublockEnd")
            [] OTHER -> Goto("ublock")
  /\ UNCHANGED <<locals, taxa, trees, data, nonDefault, others>>

\* A faulty variant of UnsupportedBlockEnd: the block ends at END whatever
\* follows it.  C10_UnsupportedBlockSkipped must not hold of it.
UnsupportedBlockEnd_anyToken ==
  /\ pc = "ublockEnd"
  /\ \E t \in ScanResults :
       /\ scan(t)
       /\ BlockReturn(NoErr)
  /\ UNCHANGED <<locals, taxa, trees, data, nonDefault, others>>

\* Lines 533-538.
UnsupportedBlockEnd ==
  /\ pc = "ublockEnd"
  /\ \E t \in ScanResults :
       /\ scan(t)
       /\ BlockReturn(IF t.tok # "ENDOFCOMMAND" THEN E("End token without ;") ELSE NoErr)
  /\ UNCHANGED <<locals, taxa, trees, data, nonDefault, others>>

\* ------------------------------------------------------------ parseTrees
\* Once err is set in a TREE command, parseTrees stops at the end of the
\* command and Parse drops its results (line 113): from then on the model
\* leaves the tree name and the tree string as they are.

\* Lines 239-255, 284-290: the first token of a command.
TreesLoop ==
  /\ pc = "trees"
  /\ \E t \in ScanResults :
       /\ scan(t)
       /\ CASE t.tok = "ENDOFLINE" -> Goto("trees")
            [] t.tok = "ILLEGAL" -> BlockReturn(E("illegal token"))
            [] t.tok = "EOF" -> BlockReturn(E("EOF in TREES block"))
            [] t.tok = "END" -> Goto("treesEnd")
            [] t.tok = "TREE" -> Goto("treeName")
            [] OTHER -> Goto("cmd")
  /\ UNCHANGED <<locals, taxa, trees, data, nonDefault, others>>

\* Lines 250-254.
TreesEnd ==
  /\ pc = "treesEnd"
  /\ \E t \in ScanResults :
       /\ scan(t)
       /\ BlockReturn(IF t.tok # "ENDOFCOMMAND" THEN E("End token without ;") ELSE NoErr)
  /\ UNCHANGED <<locals, taxa, trees, data, nonDefault, others>>

\* Lines 257-261.
TreeName ==
  /\ pc = "treeName"
  /\ \E t \in ScanResults :
       /\ scan(t)
       /\ IF t.tok # "IDENT"
          THEN err' = E("Expecting a tree name") /\ UNCHANGED lit2
          ELSE err' = err /\ lit2' = t.lit
  /\ Goto("treeEq")
  /\ UNCHANGED <<key, tree, tok4, taxa, trees, data, nonDefault, others>>

\* Lines 262-266 and 269.
TreeEq ==
  /\ pc = "treeEq"
  /\ \E t \in ScanResults :
       /\ scan(t)
       /\ err' = IF t.tok # "EQUAL" THEN E("Expecting = after tree name") ELSE err
  /\ Goto("treeScan")
  /\ UNCHANGED <<key, lit2, tree, tok4, taxa, trees, data, nonDefault, others>>

\* What the loop of lines 270-277 reads of a token: whether it is ; or an
\* IDENT, and the literal of an IDENT or a NUMERIC.
Tok4(t) ==
  IF t.tok \in {"IDENT", "NUMERIC", "ENDOFCOMMAND"} THEN t ELSE Tok("other", <<>>)

\* Lines 268 and 276: the next token of the tree string.
TreeScan ==
  /\ pc = "treeScan"
  /\ \E t \in ScanResults :
       /\ scan(t)
       /\ tok4' = Tok4(t)
  /\ Goto("treeBody")
  /\ UNCHANGED <<err, key, lit2, tree, taxa, trees, data, nonDefault, others>>

\* Lines 270-275: the token is not ; so err is set if it is no IDENT, its
\* literal is appended, and the loop scans again.  EOF does not end the
\* loop.
TreeBody ==
  /\ pc = "treeBody"
  /\ tok4.tok # "ENDOFCOMMAND"
  /\ err' = IF tok4.tok # "IDENT" THEN E("Expecting a tree") ELSE err
  /\ tree' = IF err' = NoErr THEN tree \o tok4.lit ELSE tree
  /\ Goto("treeScan")
  /\ UNCHANGED <<scanner, key, lit2, tok4, taxa, trees, data, nonDefault, others>>

\* Lines 270, 278-283 and 238: the loop ends on ;, the tree is appended and
\* parseTrees stops if the command set err.
TreeEnd ==
  /\ pc = "treeBody"
  /\ tok4.tok = "ENDOFCOMMAND"
  /\ treenames' = Append(treenames, lit2)
  /\ treestrings' = Append(treestrings, tree)
  /\ IF err # NoErr THEN BlockReturn(err) ELSE Goto("trees")
  /\ ResetLocals
  /\ UNCHANGED <<scanner, treesDecl, taxa, data, nonDefault, others>>

\* ------------------------------------------------------------ parseData
\* strconv.ParseInt(lit, 10, 64): the value, or 0 and an error.
ParseInt(lit) ==
  IF lit = <<"1">> THEN [val |-> 1, err |-> NoErr]
  ELSE IF lit = <<"2">> THEN [val |-> 2, err |-> NoErr]
  ELSE [val |-> 0, err |-> E("ParseInt")]

\* Lines 306-322, 370, 434, 474-480: the first token of a command.
DataLoop ==
  /\ pc = "data"
  /\ \E t \in ScanResults :
       /\ scan(t)
       /\ CASE t.tok = "ENDOFLINE" -> Goto("data")
            [] t.tok = "ILLEGAL" -> BlockReturn(E("illegal token"))
            [] t.tok = "EOF" -> BlockReturn(E("EOF in DATA block"))
            [] t.tok = "END" -> Goto("dataEnd")
            [] t.tok = "DIMENSIONS" -> Goto("dim")
            [] t.tok = "FORMAT" -> Goto("format")
            [] t.tok = "MATRIX" -> Goto("matrix")
            [] OTHER -> Goto("cmd")
  /\ UNCHANGED <<locals, taxa, trees, data, nonDefault, others>>

\* Lines 317-321.
DataEnd ==
  /\ pc = "dataEnd"
  /\ \E t \in ScanResults :
       /\ scan(t)
       /\ BlockReturn(IF t.tok # "ENDOFCOMMAND" THEN E("End token without ;") ELSE NoErr)
  /\ UNCHANGED <<locals, taxa, trees, data, nonDefault, others>>

\* Lines 326-330, 345, 360: the key of a DIMENSIONS entry.
Dimensions ==
  /\ pc = "dim"
  /\ \E t \in ScanResults :
       /\ scan(t)
       /\ CASE t.tok = "ENDOFCOMMAND" -> Goto("data") /\ UNCHANGED key
            [] t.tok \in {"NTAX", "NCHAR"} -> Goto("dimEq") /\ key' = t.tok
            [] OTHER -> Goto("keyEq") /\ key' = "dim"
  /\ UNCHANGED <<err, lit2, tree, tok4, taxa, trees, data, nonDefault, others>>

\* Lines 331-335 and 346-350.
DimensionsEqual ==
  /\ pc = "dimEq"
  /\ \E t \in ScanResults :
       /\ scan(t)
       /\ err' = IF t.tok # "EQUAL" THEN E("Expecting = after NTAX") ELSE NoErr
  /\ Goto("dimVal")
  /\ UNCHANGED <<key, lit2, tree, tok4, taxa, trees, data, nonDefault, others>>

\* Lines 336-344 and 351-359, then 366-368, 325 and 305: the value.  err is
\* assigned the result of ParseInt, whatever it held; stopdimensions is set
\* if err was set before, if the token is not NUMERIC or if ParseInt fails;
\* stopdata is set if err is set at the end.
DimensionsValue ==
  /\ pc = "dimVal"
  /\ \E t \in ScanResults :
       LET r == ParseInt(t.lit)
           stopdimensions == err # NoErr \/ t.tok # "NUMERIC" \/ r.err # NoErr
       IN /\ scan(t)
          /\ IF key = "NTAX"
             THEN ntax' = r.val /\ UNCHANGED nchar
             ELSE nchar' = r.val /\ UNCHANGED ntax
          /\ IF r.err # NoErr THEN BlockReturn(r.err)
             ELSE IF stopdimensions THEN Goto("data")
             ELSE Goto("dim")
  /\ ResetLocals
  /\ UNCHANGED <<taxa, trees, dataDecl, names, sequences, datatype, missing, gap, nonDefault, others>>

\* Lines 374-379, 392, 408, 424: the key of a FORMAT entry.
Format ==
  /\ pc = "format"
  /\ \E t \in ScanResults :
       /\ scan(t)
       /\ CASE t.tok = "ENDOFCOMMAND" -> Goto("data") /\ UNCHANGED key
            [] t.tok \in {"DATATYPE", "MISSING", "GAP"} -> Goto("fmtEq") /\ key' = t.tok
            [] OTHER -> Goto("keyEq") /\ key' = "format"
  /\ UNCHANGED <<err, lit2, tree, tok4, taxa, trees, data, nonDefault, others>>

\* Lines 380-384, 393-397, 409-413.
FormatEqual ==
  /\ pc = "fmtEq"
  /\ \E t \in ScanResults :
       /\ scan(t)
       /\ err' = IF t.tok # "EQUAL" THEN E("Expecting = after key") ELSE NoErr
  /\ Goto("fmtVal")
  /\ UNCHANGED <<key, lit2, tree, tok4, taxa, trees, data, nonDefault, others>>

\* Lines 385-391 and 430-432.
FormatDatatype ==
  /\ pc = "fmtVal"
  /\ key = "DATATYPE"
  /\ \E t \in ScanResults :
       LET e == IF t.tok = "IDENT" THEN err ELSE E("Expecting identifier after DATATYPE=")
       IN /\ scan(t)
          /\ datatype' = IF t.tok = "IDENT" THEN t.lit ELSE datatype
          /\ IF e # NoErr THEN BlockReturn(e) ELSE Goto("format")
  /\ ResetLocals
  /\ UNCHANGED <<taxa, trees, dataDecl, names, sequences, nchar, ntax, missing, gap, nonDefault, others>>

\* The error of lines 398-406 and 414-422.
SingleCharErr(t, e) ==
  IF Len(t.lit) # 1 THEN E("Expecting a single character")
  ELSE IF t.tok # "IDENT" THEN E("Expecting an identifier")
  ELSE e

\* Lines 398-407 and 414-423, then 430-432: []rune(lit4)[0] is taken
\* whatever the checks before it found, and panics on the empty literal.
FormatChar ==
  /\ pc = "fmtVal"
  /\ key \in {"MISSING", "GAP"}
  /\ \E t \in ScanResults :
       LET e == SingleCharErr(t, err)
       IN /\ scan(t)
          /\ IF t.lit = <<>>
             THEN pc' = "panic" /\ UNCHANGED <<block, result, missing, gap, history>>
             ELSE /\ IF key = "MISSING"
                     THEN missing' = t.lit[1] /\ UNCHANGED gap
                     ELSE gap' = t.lit[1] /\ UNCHANGED missing
                  /\ nonDefault' = (nonDefault \/ (e = NoErr /\ t.lit[1] # DefaultChar(key)))
                  /\ IF e # NoErr THEN BlockReturn(e) ELSE Goto("format")
  /\ ResetLocals
  /\ UNCHANGED <<taxa, trees, dataDecl, names, sequences, nchar, ntax, datatype, others>>

\* Lines 439-445, 461-468, 470-472: the name of a row.
Matrix ==
  /\ pc = "matrix"
  /\ \E t \in ScanResults :
       /\ scan(t)
       /\ CASE t.tok = "IDENT" ->
                 /\ names' = Append(names, t.lit)
                 /\ sequences' = Append(sequences, <<>>)
                 /\ Goto("seq")
            [] t.tok = "ENDOFLINE" -> Goto("matrix") /\ UNCHANGED <<names, sequences>>
            [] t.tok = "ENDOFCOMMAND" -> Goto("data") /\ UNCHANGED <<names, sequences>>
            [] OTHER ->
                 /\ BlockReturn(E("Expecting sequence identifier"))
                 /\ UNCHANGED <<names, sequences>>
  /\ UNCHANGED <<locals, taxa, trees, dataDecl, nchar, ntax, datatype, missing, gap, nonDefault, others>>

\* Lines 446-460: the sequence of a row, up to the end of the line.
MatrixSequence ==
  /\ pc = "seq"
  /\ \E t \in ScanResults :
       /\ scan(t)
       /\ CASE t.tok = "IDENT" ->
                 /\ sequences' = [sequences EXCEPT ![Len(sequences)] = @ \o t.lit]
                 /\ Goto("seq")
            [] t.tok = "ENDOFLINE" -> Goto("matrix") /\ UNCHANGED sequences
            [] OTHER -> BlockReturn(E("Expecting sequence")) /\ UNCHANGED sequences
  /\ UNCHANGED <<locals, taxa, trees, dataDecl, names, nchar, ntax, datatype, missing, gap, nonDefault, others>>

\* ------------------------------------------------------------ parseUnsupportedKey
\* Lines 508-511, called from lines 361 and 425 (key holds the caller).
UnsupportedKey ==
  /\ pc = "keyEq"
  /\ \E t \in ScanResults :
       /\ scan(t)
       /\ IF t.tok # "EQUAL" THEN BlockReturn(E("Expecting = after key")) ELSE Goto("keyVal")
  /\ UNCHANGED <<locals, taxa, trees, data, nonDefault, others>>

\* Lines 512-515.
UnsupportedKeyValue ==
  /\ pc = "keyVal"
  /\ \E t \in ScanResults :
       /\ scan(t)
       /\ IF t.tok \notin {"IDENT", "NUMERIC"}
          THEN BlockReturn(E("Expecting an identifier after key="))
          ELSE Goto(key)
  /\ ResetLocals
  /\ UNCHANGED <<taxa, trees, data, nonDefault, others>>

\* ------------------------------------------------------------ specification
Next ==
  \/ ParseHeader
  \/ ParseLoop
  \/ ParseEnd
  \/ BlockName
  \/ BlockBegin
  \/ TaxaLoop
  \/ TaxaEnd
  \/ Taxlabels
  \/ TreesLoop
  \/ TreesEnd
  \/ TreeName
  \/ TreeEq
  \/ TreeScan
  \/ TreeBody
  \/ TreeEnd
  \/ DataLoop
  \/ DataEnd
  \/ Dimensions
  \/ DimensionsEqual
  \/ DimensionsValue
  \/ Format
  \/ FormatEqual
  \/ FormatDatatype
  \/ FormatChar
  \/ Matrix
  \/ MatrixSequence
  \/ UnsupportedKey
  \/ UnsupportedKeyValue
  \/ UnsupportedCommand
  \/ UnsupportedBlock
  \/ UnsupportedBlockEnd

Spec == Init /\ [][Next]_vars

\* Parse runs on: every step that can change the state is taken in the end.
FairSpec == InitWith(AllTokens, MaxLitsLive) /\ [][Next]_vars /\ WF_vars(Next)

\* Documents of TAXA, TREES and unsupported blocks.
NextTrees ==
  \/ ParseHeader
  \/ ParseLoop
  \/ ParseEnd
  \/ BlockName
  \/ BlockBegin
  \/ TaxaLoop
  \/ TaxaEnd
  \/ Taxlabels
  \/ TreesLoop
  \/ TreesEnd
  \/ TreeName
  \/ TreeEq
  \/ TreeScan
  \/ TreeBody
  \/ TreeEnd
  \/ UnsupportedCommand
  \/ UnsupportedBlock
  \/ UnsupportedBlockEnd

TreesSpec == InitWith(TreesTokens, MaxLitsTrees) /\ [][NextTrees]_vars

\* Documents of DATA blocks with DIMENSIONS and MATRIX commands, and of
\* unsupported blocks.
NextData ==
  \/ ParseHeader
  \/ ParseLoop
  \/ ParseEnd
  \/ BlockName
  \/ BlockBegin
  \/ DataLoop
  \/ DataEnd
  \/ Dimensions
  \/ DimensionsEqual
  \/ DimensionsValue
  \/ Matrix
  \/ MatrixSequence
  \/ UnsupportedKey
  \/ UnsupportedKeyValue
  \/ UnsupportedCommand
  \/ UnsupportedBlock
  \/ UnsupportedBlockEnd

DataSpec == InitWith(DataTokens, MaxLitsData) /\ [][NextData]_vars

\* ------------------------------------------------------------ properties
Rejected == resDoc = "nil" /\ resErr # NoErr
Accepted == resDoc = "nexus" /\ resErr = NoErr

\* The messages of the errors Parse itself returns inside the block loop.
TopErrors == {"expected #NEXUS", "illegal token", "expected ;"}

\* Parse has returned from the checks after the block loop.
CheckedAfterLoop == pc = "done" /\ block = "none" /\ resErr.msg \notin TopErrors

DefaultsInEffect == gap = DefaultChar("GAP") /\ missing = DefaultChar("MISSING")
RowNames == {names[i] : i \in 1 .. Len(names)}
TipNames(i) == {NewickTips(treestrings[i])[j] : j \in 1 .. Len(treestrings[i])}
AllTipNames == UNION {TipNames(i) : i \in 1 .. Len(treestrings)}
RowsPass ==
  \A i \in 1 .. Len(sequences) :
    (nchar = -1 \/ Len(sequences[i]) = nchar) /\ i \notin rejected
RowCountPasses == ntax = -1 \/ Len(names) = ntax

\* C1: Parse terminates on every finite input: once the scanner has reached
\* the end of the input, Parse comes to an end (it returns, or it crashes).
\* Refuted under FairSpec by an EOF inside a TREE command: the loop of
\* lines 270-277 goes round for ever.
C1_ParseTerminates == eof ~> (pc \in {"done", "panic"})

\* C2: when EOF is reached while a TAXA, DATA or unsupported block is open,
\* Parse does not crash, and if it has returned it returned the nil
\* document and an error.  Refuted by an EOF in the place of the character
\* of MISSING or GAP: line 407 or 423 indexes the empty literal.
C2_EofInOpenBlock ==
  (eof /\ block \in {"taxa", "data", "other"}) =>
    /\ pc # "panic"
    /\ pc = "done" => Rejected

\* The errors of the checks after the block loop that fail on the data
\* collected.
FailedChecks ==
  (IF ~DefaultsInEffect THEN {E("gap")} ELSE {})
    \cup (IF dataDecl /\ CheckAlignment(rejected) # NoErr
          THEN {CheckAlignment(rejected)} ELSE {})
    \cup (IF treesDecl /\ CheckTrees(1) # NoErr THEN {CheckTrees(1)} ELSE {})

\* C3: every return of Parse yields either the document and no error or no
\* document and an error; when a block parser reported an error (the block
\* is still open) or a check after the loop fails, also after rows or trees
\* were added, Parse returns no document and the error of a failed check.
C3_DocumentOrError ==
  pc = "done" =>
    /\ Accepted \/ Rejected
    /\ block # "none" => Rejected
    /\ (CheckedAfterLoop /\ FailedChecks # {}) => Rejected /\ resErr \in FailedChecks

\* C3, witness: the first tree fails to parse after a row of the matrix was
\* added to the alignment.
C3_Witness ==
  pc = "done" /\ resDoc = "nil" /\ resErr = At("newick", 0) /\ Len(names) > 0

\* C4 as stated: a document in which some FORMAT command declared another
\* gap or missing character than the default is rejected, whatever follows
\* the declaration.  Refuted by a later DATA block, which starts again from
\* the defaults.
C4_EveryDeclarationRejected == (pc = "done" /\ nonDefault) => Rejected

\* C4, amended: when Parse returns while the gap or missing character in
\* effect (the one its last DATA block ended with) is not the default, it
\* returns no document and an error, and the checks after the loop, if
\* reached, report the characters.
C4_CharactersInEffect ==
  (pc = "done" /\ ~DefaultsInEffect) =>
    /\ Rejected
    /\ CheckedAfterLoop => resErr = E("gap")

\* C4, witness: a declared character is still in effect at the end of the
\* document and the document is refused for it.
C4_Witness == CheckedAfterLoop /\ nonDefault /\ ~DefaultsInEffect /\ resErr = E("gap")

\* C5: when labels were declared and Parse succeeds, the set of the tip
\* names of every tree is the set of the labels.  Refuted under TreesSpec by
\* a tree with two tips of one name: lines 165-176 look every tip up and
\* then compare the number of tips with the number of labels.
C5_TipsAreTheLabels ==
  (pc = "done" /\ resDoc = "nexus" /\ taxaDecl) =>
    \A i \in 1 .. Len(treestrings) : TipNames(i) = taxlabels

\* The messages of the cross-checks against the labels.
LabelErrors == {"seqlabel", "seqcount", "tiplabel", "tipcount"}

\* The checks after the loop that do not read the labels pass.
ChecksWithoutLabelsPass ==
  /\ DefaultsInEffect
  /\ dataDecl => datatype \in KnownDatatypes /\ RowCountPasses /\ RowsPass
  /\ treesDecl => \A i \in 1 .. Len(treestrings) : ~NewickFails(treestrings[i])

\* C6: with a TAXA block, Parse does not succeed when a row name or a tip
\* name is not a declared label; without a TAXA block no error comes from a
\* cross-check against labels, and the document is accepted when the other
\* checks pass.
C6_LabelCrossCheck ==
  pc = "done" =>
    /\ (taxaDecl /\ resDoc = "nexus") =>
         RowNames \subseteq taxlabels /\ AllTipNames \subseteq taxlabels
    /\ ~taxaDecl => resErr.msg \notin LabelErrors
    /\ (~taxaDecl /\ CheckedAfterLoop /\ ChecksWithoutLabelsPass) => Accepted

\* C6, witness: a tree with a tip that is no declared label was refused.
C6_Witness ==
  /\ pc = "done" /\ taxaDecl /\ taxlabels # {}
  /\ resErr = At("tiplabel", 0)
  /\ ~(AllTipNames \subseteq taxlabels)

\* Every check after the loop but the row count passes.
OtherChecksPass ==
  /\ DefaultsInEffect
  /\ datatype \in KnownDatatypes
  /\ RowsPass
  /\ taxaDecl => RowNames \subseteq taxlabels /\ Len(names) = Cardinality(taxlabels)
  /\ treesDecl => CheckTrees(1) = NoErr

\* C7: with NTAX=n declared, a document that passes the other checks is
\* accepted when the matrix has n rows; with any other number of rows it is
\* refused, for the row count when the checks before it pass; without NTAX
\* (-1) the row count refuses nothing.
C7_RowCount ==
  (CheckedAfterLoop /\ dataDecl) =>
    /\ (ntax # -1 /\ Len(names) = ntax /\ OtherChecksPass) => Accepted
    /\ (ntax # -1 /\ Len(names) # ntax) =>
         /\ Rejected
         /\ (DefaultsInEffect /\ datatype \in KnownDatatypes) => resErr = E("ntax")
    /\ ntax = -1 => resErr # E("ntax") /\ (OtherChecksPass => Accepted)

\* C7, witness: NTAX=1 and a matrix of two rows, refused for the row count.
C7_Witness ==
  CheckedAfterLoop /\ ntax = 1 /\ Len(names) = 2 /\ resErr = E("ntax")

BadRow(i) == nchar # -1 /\ Len(sequences[i]) # nchar
FirstBadRow(i) == BadRow(i) /\ \A j \in 1 .. (i - 1) : ~BadRow(j)

\* C8: with NCHAR=c declared, a document with a row whose sequence has
\* another length than c is refused; the error of the row length names the
\* first such row, the rows before it having been added, and it is the
\* error returned when the checks before the rows pass; without NCHAR (-1)
\* no row is refused for its length.
C8_RowLength ==
  (CheckedAfterLoop /\ dataDecl) =>
    /\ (\E i \in 1 .. Len(sequences) : BadRow(i)) => Rejected
    /\ \A i \in 1 .. Len(sequences) :
         ( /\ FirstBadRow(i)
           /\ DefaultsInEffect /\ datatype \in KnownDatatypes /\ RowCountPasses
           /\ rejected \cap (1 .. (i - 1)) = {} ) => resErr = At("nchar", i - 1)
    /\ resErr.msg = "nchar" =>
         /\ resErr.at + 1 \in 1 .. Len(sequences)
         /\ FirstBadRow(resErr.at + 1)
         /\ rejected \cap (1 .. resErr.at) = {}
    /\ nchar = -1 => resErr.msg # "nchar"

\* C8, witness: NCHAR=1, a first row of length 1 and a second row of
\* another length, refused for the second row.
C8_Witness ==
  /\ CheckedAfterLoop /\ nchar = 1 /\ Len(sequences) = 2
  /\ Len(sequences[1]) = 1 /\ BadRow(2)
  /\ resErr = At("nchar", 1)

\* The places where a block parser reads the first token of a command.
BlockLoops == {"taxa", "trees", "data"}

\* C9: in a TAXA, TREES or DATA block a command that starts with a token
\* the block does not handle is passed over up to its own ; and no further:
\* after that ; the block parser reads the first token of the next command,
\* what was collected is unchanged, and Parse fails in it only on an
\* ILLEGAL token or EOF.  Refuted by the command that is its ; alone: the
\* default branch (lines 222-223, 284-285, 474-475) passes over the
\* command that follows it.
C9_UnhandledCommandSkipped ==
  [][ /\ (pc \in BlockLoops /\ buf' = "ENDOFCOMMAND") => pc' = pc
      /\ (pc = "cmd" /\ buf' = "ENDOFCOMMAND") => pc' = block
      /\ (pc = "cmd" \/ pc' = "cmd") =>
           /\ UNCHANGED <<taxa, trees, data>>
           /\ pc' = "done" => buf' \in {"ILLEGAL", "EOF"}
    ]_vars

\* C10 as stated: in an unsupported block without ILLEGAL token and EOF no
\* error is returned.  Refuted by an END that another token than ; follows.
C10_NoErrorInUnsupportedBlock ==
  [][ (pc \in {"ublock", "ublockEnd"} /\ buf' \notin {"ILLEGAL", "EOF"}) => pc' # "done" ]_vars

\* C10, amended: an unsupported block is passed over token by token up to
\* its first END; when ; follows that END the block ends there without an
\* error, and when another token follows it Parse returns no document and
\* an error; nothing that was collected changes on the way.
C10_UnsupportedBlockSkipped ==
  [][ (pc \in {"ublock", "ublockEnd"}) =>
        /\ UNCHANGED <<taxa, trees, data>>
        /\ (pc = "ublock" /\ buf' \notin {"ILLEGAL", "EOF", "END"}) =>
             pc' = "ublock" /\ UNCHANGED result
        /\ (pc = "ublock" /\ buf' = "END") => pc' = "ublockEnd" /\ UNCHANGED result
        /\ (pc = "ublock" /\ buf' \in {"ILLEGAL", "EOF"}) => pc' = "done" /\ resDoc' = "nil" /\ resErr' # NoErr
        /\ (pc = "ublockEnd" /\ buf' = "ENDOFCOMMAND") =>
             pc' = "top" /\ block' = "none" /\ UNCHANGED result
        /\ (pc = "ublockEnd" /\ buf' # "ENDOFCOMMAND") => pc' = "done" /\ resDoc' = "nil" /\ resErr' # NoErr
    ]_vars

\* C10, witness: an unsupported block has just ended at its END ; and the
\* labels declared before it are still there.
C10_Witness ==
  pc = "top" /\ last = "other" /\ buf = "ENDOFCOMMAND" /\ taxaDecl /\ taxlabels # {}

\* ------------------------------------------------------------ tree.Node
\* The neighbors a node may have in the specifications of the node lists.
MaxDegree == 3
MaxLinks == 2

\* The nodes whose lists NodeSpec changes.
Receivers == {"p"}

ErrNodeNotFound == E("The Node is not in the neighbors of node")
ErrManyParents == E("The node has more than one parent")
ErrNoParent == E("The node has no parent : May be the root?")

\* s without its element of index i, counted from 0 as the slices of the
\* source are: append(s[0:i], s[i+1:]...).
Remove(s, i) == SubSeq(s, 1, i) \o SubSeq(s, i + 2, Len(s))

\* Node.NodeIndex, lines 99-106: the loop from index i.
RECURSIVE NodeIndexFrom(_, _, _)
NodeIndexFrom(n, next, i) ==
  IF i >= Len(neigh[n]) THEN [idx |-> -1, err |-> ErrNodeNotFound]
  ELSE IF neigh[n][i + 1] = next THEN [idx |-> i, err |-> NoErr]
  ELSE NodeIndexFrom(n, next, i + 1)

NodeIndex(n, next) == NodeIndexFrom(n, next, 0)

\* Node.Parent, lines 54-68: the loop from the edge of index i (from 1), n2
\* being the parent found so far.
RECURSIVE ParentFrom(_, _, _)
ParentFrom(n, i, n2) ==
  IF i > Len(br[n])
  THEN IF n2 = Nil THEN [node |-> Nil, err |-> ErrNoParent]
       ELSE [node |-> n2, err |-> NoErr]
  ELSE IF right[br[n][i]] = n
       THEN IF n2 # Nil THEN [node |-> Nil, err |-> ErrManyParents]
            ELSE ParentFrom(n, i + 1, left[br[n][i]])
       ELSE ParentFrom(n, i + 1, n2)

Parent(n) == ParentFrom(n, 1, Nil)

\* Node.ParentEdge, lines 74-88.
RECURSIVE ParentEdgeFrom(_, _, _)
ParentEdgeFrom(n, i, e2) ==
  IF i > Len(br[n])
  THEN IF e2 = Nil THEN [edge |-> Nil, err |-> ErrNoParent]
       ELSE [edge |-> e2, err |-> NoErr]
  ELSE IF right[br[n][i]] = n
       THEN IF e2 # Nil THEN [edge |-> Nil, err |-> ErrManyParents]
            ELSE ParentEdgeFrom(n, i + 1, br[n][i])
       ELSE ParentEdgeFrom(n, i + 1, e2)

ParentEdge(n) == ParentEdgeFrom(n, 1, Nil)

\* The index (from 1) of the first pair of s whose node is n2.
FirstPair(s, n2) == CHOOSE i \in 1 .. Len(s) :
  s[i][1] = n2 /\ \A j \in 1 .. i - 1 : s[j][1] # n2

\* p.addChild(n, e), lines 18-22.
addChild(p, n, e) ==
  /\ neigh' = [neigh EXCEPT ![p] = Append(@, n)]
  /\ br' = [br EXCEPT ![p] = Append(@, e)]
  /\ added' = [added EXCEPT ![p] = Append(@, <<n, e>>)]
  /\ call' = [NoCall EXCEPT !.op = "addChild", !.n = p, !.arg = n, !.edge = e,
                            !.len = Len(br[p])]
  /\ UNCHANGED <<left, right, parser, render, pipe, tools>>

\* delNeighbor with the edge of another index removed.
delNeighbor_otherEdge(n, n2) ==
  LET r == NodeIndex(n, n2) IN
  /\ call' = [NoCall EXCEPT !.op = "delNeighbor", !.n = n, !.arg = n2,
                            !.idx = r.idx, !.len = Len(br[n]), !.err = r.err]
  /\ IF r.err # NoErr THEN UNCHANGED <<neigh, br, added>>
     ELSE /\ br' = [br EXCEPT ![n] = Remove(@, Len(@) - 1)]
          /\ neigh' = [neigh EXCEPT ![n] = Remove(@, r.idx)]
          /\ added' = [added EXCEPT ![n] = Remove(@, FirstPair(@, n2) - 1)]
  /\ UNCHANGED <<left, right, parser, render, pipe, tools>>

\* n.delNeighbor(n2), lines 40-48.
delNeighbor(n, n2) ==
  LET r == NodeIndex(n, n2) IN
  /\ call' = [NoCall EXCEPT !.op = "delNeighbor", !.n = n, !.arg = n2,
                            !.idx = r.idx, !.len = Len(br[n]), !.err = r.err]
  /\ IF r.err # NoErr THEN UNCHANGED <<neigh, br, added>>
     ELSE /\ br' = [br EXCEPT ![n] = Remove(@, r.idx)]
          /\ neigh' = [neigh EXCEPT ![n] = Remove(@, r.idx)]
          /\ added' = [added EXCEPT ![n] = Remove(@, FirstPair(@, n2) - 1)]
  /\ UNCHANGED <<left, right, parser, render, pipe, tools>>

AddChild ==
  \E p \in Receivers, n \in Nodes, e \in Edges :
    Len(neigh[p]) < MaxDegree /\ addChild(p, n, e)

DelNeighbor == \E n \in Receivers, n2 \in Nodes : delNeighbor(n, n2)

\* Nodes without neighbors, edges without endpoints, and a parser at rest.
InitNodes == NoNodes /\ NoPipe /\ NoTools /\ NewParser({}, 0)

NextNode ==
  \/ AddChild
  \/ DelNeighbor

NodeSpec == InitNodes /\ [][NextNode]_vars

\* An edge gets an endpoint while the tree is built.
setLeft(e, n) ==
  /\ left' = [left EXCEPT ![e] = n]
  /\ call' = NoCall
  /\ UNCHANGED <<neigh, br, right, added, parser, render, pipe, tools>>

setRight(e, n) ==
  /\ right' = [right EXCEPT ![e] = n]
  /\ call' = NoCall
  /\ UNCHANGED <<neigh, br, left, added, parser, render, pipe, tools>>

Attach ==
  \E p \in Nodes, n \in Nodes, e \in Edges :
    Len(neigh[p]) < MaxLinks /\ addChild(p, n, e)

SetLeft == \E e \in Edges, n \in Nodes : left[e] = Nil /\ setLeft(e, n)

SetRight == \E e \in Edges, n \in Nodes : right[e] = Nil /\ setRight(e, n)

\* A caller asks the node n for its parent.
CallParent ==
  \E n \in Nodes :
    /\ call' = [NoCall EXCEPT !.op = "Parent", !.n = n, !.arg = Parent(n).node,
                              !.err = Parent(n).err]
    /\ UNCHANGED <<graph, added, parser, render, pipe, tools>>

CallParentEdge ==
  \E n \in Nodes :
    /\ call' = [NoCall EXCEPT !.op = "ParentEdge", !.n = n,
                              !.edge = ParentEdge(n).edge, !.err = ParentEdge(n).err]
    /\ UNCHANGED <<graph, added, parser, render, pipe, tools>>

NextParent ==
  \/ Attach
  \/ SetLeft
  \/ SetRight
  \/ CallParent
  \/ CallParentEdge

ParentSpec == InitNodes /\ [][NextParent]_vars

\* ------------------------------------------------------------ properties of tree.Node
\* The pairs (neigh[i], br[i]) of the node n.
Pairs(n) == [i \in 1 .. Len(neigh[n]) |-> <<neigh[n][i], br[n][i]>>]

\* C11: after any sequence of addChild and delNeighbor calls on a node,
\* failing ones included, its neighbor list and its edge list have the same
\* length and the pairs (neigh[i], br[i]) are the pairs added and not removed,
\* in insertion order.
C11_ListsAligned ==
  \A n \in Nodes : Len(neigh[n]) = Len(br[n]) /\ Pairs(n) = added[n]

\* A neighbor that is not the last one was removed and two pairs remain.
C11_Witness ==
  /\ call.op = "delNeighbor"
  /\ call.err = NoErr
  /\ call.idx = 0
  /\ Len(neigh[call.n]) = 2
  /\ br[call.n][1] # br[call.n][2]

\* C12: after delNeighbor(n, m) succeeded, NodeIndex(n, m) fails with the
\* not-found error and the edge list of n is one shorter than before, also
\* when addChild attached m to n more than once.
C12_RemovedIsGone ==
  (call.op = "delNeighbor" /\ call.err = NoErr) =>
    /\ NodeIndex(call.n, call.arg).err = ErrNodeNotFound
    /\ Len(br[call.n]) = call.len - 1

\* The places in the edge list of n of the edges whose right endpoint is n.
ParentPlaces(n) == {i \in 1 .. Len(br[n]) : right[br[n][i]] = n}

\* C13: Parent(n) returns the left endpoint of the edge of n's edge list whose
\* right endpoint is n when there is exactly one such edge, fails with the
\* more-than-one-parent error when there are two or more, and with the
\* no-parent error when there is none, in whatever order the edges are; so a
\* node whose own lists are empty has no parent.
C13_ParentByCount ==
  (call.op = "Parent") =>
    LET places == ParentPlaces(call.n) IN
    /\ Cardinality(places) = 1 =>
         call.err = NoErr /\ \A i \in places : call.arg = left[br[call.n][i]]
    /\ Cardinality(places) >= 2 => call.err = ErrManyParents
    /\ Cardinality(places) = 0 => call.err = ErrNoParent

\* C14: Parent(n) succeeds iff ParentEdge(n) succeeds, on success it is the
\* left endpoint of the edge ParentEdge(n) returns, and on failure both report
\* the same error, also while the left endpoint of an edge is not set yet.
C14_ParentAgreesWithParentEdge ==
  (call.op = "Parent") =>
    LET pe == ParentEdge(call.n) IN
    /\ call.err = pe.err
    /\ call.err = NoErr => call.arg = left[pe.edge]

\* ------------------------------------------------------------ Node.Newick
\* The nodes of the trees Newick is called on, and the outermost calls made
\* on one tree.
MaxTreeNodes == 3
MaxCalls == 2

\* The j-th node of a tree and the edge above it.
NodeNames == <<"r", "s", "t", "u", "v", "w">>
EdgeNames == <<"e", "es", "et", "eu", "ev", "ew">>
Place(n) == CHOOSE j \in 1 .. Len(NodeNames) : NodeNames[j] = n
EdgePlace(e) == CHOOSE j \in 1 .. Len(EdgeNames) : EdgeNames[j] = e
TreeNodes(k) == {NodeNames[j] : j \in 1 .. k}
TreeEdges(k) == {EdgeNames[j] : j \in 2 .. k}

\* Edge.support and Edge.length are float64, modelled in millionths; -1 says
\* that the edge has none.
Absent == -1000000
Supports == {Absent, 900000}
Lengths == {Absent, 123456}
Comments == {<<>>, << <<"x">>, <<"y", "z">> >>}

Digit(d) == <<"0", "1", "2", "3", "4", "5", "6", "7", "8", "9">>[d + 1]

\* The decimal digits of the natural number v.
RECURSIVE Digits(_)
Digits(v) == IF v < 10 THEN <<Digit(v)>> ELSE Digits(v \div 10) \o <<Digit(v % 10)>>

\* The last k decimal digits of v.
RECURSIVE LastDigits(_, _)
LastDigits(v, k) ==
  IF k = 0 THEN <<>> ELSE LastDigits(v \div 10, k - 1) \o <<Digit(v % 10)>>

\* strconv.FormatFloat(x, 'f', 5, 64) of the x that is v millionths: v rounded
\* to five decimals (no v of the model lies halfway between two of them).
FormatFloat(v) ==
  LET a == IF v < 0 THEN -v ELSE v
      r == (a + 5) \div 10
  IN (IF v < 0 THEN <<"-">> ELSE <<>>)
       \o Digits(r \div 100000) \o <<".">> \o LastDigits(r % 100000, 5)

\* The elements of the set S of numbers in ascending order.
RECURSIVE Ascending(_)
Ascending(S) ==
  IF S = {} THEN <<>>
  ELSE LET m == CHOOSE x \in S : \A y \in S : x <= y
       IN <<m>> \o Ascending(S \ {m})

\* The rooted trees of k nodes: up[j] is the place of the node above the
\* j-th node.
Shapes(k) == {up \in [2 .. k -> 1 .. k] : \A j \in 2 .. k : up[j] < j}

\* The places of the neighbors of the j-th node of the tree up of k nodes: the
\* node above it, then the nodes below it.
Around(up, k, j) ==
  (IF j > 1 THEN <<up[j]>> ELSE <<>>) \o Ascending({c \in 2 .. k : up[c] = j})

\* The tree up of k nodes, every two neighbors connected in both directions
\* by the edge above the lower one.
TreeLists(up, k) ==
  /\ neigh = [n \in TreeNodes(k) |->
                [i \in 1 .. Len(Around(up, k, Place(n))) |->
                   NodeNames[Around(up, k, Place(n))[i]]]]
  /\ br = [n \in TreeNodes(k) |->
             [i \in 1 .. Len(Around(up, k, Place(n))) |->
                LET m == Around(up, k, Place(n))[i]
                IN EdgeNames[IF m < Place(n) THEN Place(n) ELSE m]]]
  /\ left = [e \in TreeEdges(k) |-> NodeNames[up[EdgePlace(e)]]]
  /\ right = [e \in TreeEdges(k) |-> NodeNames[EdgePlace(e)]]

\* A call of Newick on the node n coming from the node parent (line 110).
Frame(n, parent) == [n |-> n, parent |-> parent, i |-> 0, nbchild |-> 0, at |-> "enter"]

Top == stack[Len(stack)]
SetTop(f) == [stack EXCEPT ![Len(stack)] = f]

\* A tree of at most k nodes, its nodes named after their places, its edges
\* all with the same length or all without one, and a node and a came-from
\* node (nil or one of its neighbors) to call Newick with.
InitNewick(k) ==
  /\ \E size \in 1 .. k : \E up \in Shapes(size) :
       /\ TreeLists(up, size)
       /\ name = [n \in TreeNodes(size) |-> <<n>>]
       /\ comment \in [TreeNodes(size) -> Comments]
       /\ depth = [n \in TreeNodes(size) |-> 0]
       /\ support \in [TreeEdges(size) -> Supports]
       /\ \E l \in Lengths : length = [e \in TreeEdges(size) |-> l]
       /\ start \in TreeNodes(size)
  /\ from \in {Nil} \cup {neigh[start][i] : i \in 1 .. Len(neigh[start])}
  /\ added = [n \in DOMAIN neigh |-> <<>>]
  /\ call = NoCall
  /\ stack = <<>>
  /\ newick = <<>>
  /\ outs = <<>>
  /\ entered = <<>>
  /\ returned = <<>>
  /\ NoPipe
  /\ NoTools
  /\ NewParser({}, 0)

\* start.Newick(from, newick) on a new buffer.
NewickCall ==
  /\ stack = <<>>
  /\ Len(outs) < MaxCalls
  /\ stack' = <<Frame(start, from)>>
  /\ newick' = <<>>
  /\ entered' = <<>>
  /\ returned' = <<>>
  /\ UNCHANGED <<fields, start, from, outs, nodes, parser, pipe, tools>>

\* Lines 111-115 with the parenthesis written for more than one child.
NewickEnter_forChildren ==
  /\ stack # <<>>
  /\ Top.at = "enter"
  /\ LET n == Top.n
         open == Cardinality({i \in 1 .. Len(neigh[n]) : neigh[n][i] # Top.parent}) > 1
     IN /\ newick' = newick \o (IF open THEN <<"(">> ELSE <<>>)
        /\ entered' = Append(entered, [n |-> n, parent |-> Top.parent, open |-> open])
        /\ stack' = SetTop([Top EXCEPT !.at = "loop"])
  /\ UNCHANGED <<fields, start, from, outs, returned, nodes, parser, pipe, tools>>

\* Lines 111-115: the call begins.
NewickEnter ==
  /\ stack # <<>>
  /\ Top.at = "enter"
  /\ LET n == Top.n
         open == Len(neigh[n]) > 0 /\ Len(neigh[n]) > 1
     IN /\ newick' = newick \o (IF open THEN <<"(">> ELSE <<>>)
        /\ entered' = Append(entered, [n |-> n, parent |-> Top.parent, open |-> open])
        /\ stack' = SetTop([Top EXCEPT !.at = "loop"])
  /\ UNCHANGED <<fields, start, from, outs, returned, nodes, parser, pipe, tools>>

\* Lines 116-121: the next neighbor; it is passed over if it is the came-from
\* node, and Newick is called on it otherwise.
NewickChild ==
  /\ stack # <<>>
  /\ Top.at = "loop"
  /\ Top.i < Len(neigh[Top.n])
  /\ LET child == neigh[Top.n][Top.i + 1] IN
     IF child # Top.parent
     THEN /\ newick' = newick \o (IF Top.nbchild > 0 THEN <<",">> ELSE <<>>)
          /\ stack' = Append(SetTop([Top EXCEPT !.at = "after"]), Frame(child, Top.n))
     ELSE /\ stack' = SetTop([Top EXCEPT !.i = @ + 1])
          /\ UNCHANGED newick
  /\ UNCHANGED <<fields, start, from, outs, entered, returned, nodes, parser, pipe, tools>>

\* All the comments cs as lines 126-130 write them.
RECURSIVE Bracketed(_)
Bracketed(cs) ==
  IF cs = <<>> THEN <<>> ELSE <<"[">> \o Head(cs) \o <<"]">> \o Bracketed(Tail(cs))

\* What lines 122-135 write after the call on child, e being the edge to it.
AfterChild(child, e) ==
  (IF support[e] # Absent THEN FormatFloat(support[e]) ELSE <<>>)
    \o (IF Len(comment[child]) # 0 THEN Bracketed(comment[child]) ELSE <<>>)
    \o (IF length[e] # Absent THEN <<":">> \o FormatFloat(length[e]) ELSE <<>>)

\* Lines 122-136 with the edge taken at the index of the child among the
\* children.
NewickAfterChild_edgeOfNbchild ==
  /\ stack # <<>>
  /\ Top.at = "after"
  /\ newick' = newick \o AfterChild(neigh[Top.n][Top.i + 1], br[Top.n][Top.nbchild + 1])
  /\ stack' = SetTop([Top EXCEPT !.at = "loop", !.nbchild = @ + 1, !.i = @ + 1])
  /\ UNCHANGED <<fields, start, from, outs, entered, returned, nodes, parser, pipe, tools>>

\* Lines 122-136 with the comments taken off the child as they are written.
NewickAfterChild_takesComments ==
  /\ stack # <<>>
  /\ Top.at = "after"
  /\ newick' = newick \o AfterChild(neigh[Top.n][Top.i + 1], br[Top.n][Top.i + 1])
  /\ stack' = SetTop([Top EXCEPT !.at = "loop", !.nbchild = @ + 1, !.i = @ + 1])
  /\ comment' = [comment EXCEPT ![neigh[Top.n][Top.i + 1]] = <<>>]
  /\ UNCHANGED <<name, depth, support, length, start, from, outs, entered, returned,
                 nodes, parser, pipe, tools>>

\* Lines 122-136: the call on the child has returned.
NewickAfterChild ==
  /\ stack # <<>>
  /\ Top.at = "after"
  /\ newick' = newick \o AfterChild(neigh[Top.n][Top.i + 1], br[Top.n][Top.i + 1])
  /\ stack' = SetTop([Top EXCEPT !.at = "loop", !.nbchild = @ + 1, !.i = @ + 1])
  /\ UNCHANGED <<fields, start, from, outs, entered, returned, nodes, parser, pipe, tools>>

\* Lines 138-143: the loop has ended and the call returns.
NewickReturn ==
  /\ stack # <<>>
  /\ Top.at = "loop"
  /\ Top.i >= Len(neigh[Top.n])
  /\ LET n == Top.n
         close == Len(neigh[n]) > 0 /\ Len(neigh[n]) > 1
     IN /\ newick' = newick \o (IF close THEN <<")">> ELSE <<>>) \o name[n]
        /\ returned' = Append(returned, [n |-> n, close |-> close])
        /\ stack' = SubSeq(stack, 1, Len(stack) - 1)
        /\ outs' = IF Len(stack) = 1 THEN Append(outs, newick') ELSE outs
  /\ UNCHANGED <<fields, start, from, entered, nodes, parser, pipe, tools>>

NextNewick ==
  \/ NewickCall
  \/ NewickEnter
  \/ NewickChild
  \/ NewickAfterChild
  \/ NewickReturn

NewickSpec == InitNewick(MaxTreeNodes) /\ [][NextNewick]_vars

FairNewickSpec == InitNewick(MaxTreeNodes) /\ [][NextNewick]_vars /\ WF_vars(NextNewick)

\* ------------------------------------------------------------ properties of Node.Newick
\* The places in the neighbor list of n of its traversal children, the
\* neighbors other than the came-from node parent.
ChildPlaces(n, parent) == {i \in 1 .. Len(neigh[n]) : neigh[n][i] # parent}

\* The rendering of the node n reached from the node parent: its traversal
\* children in the order of the neighbor list, separated by commas and each
\* followed by the support of the edge at its index, its comments in
\* brackets, and a colon and the length of that edge; parentheses around the
\* children of a node of more than one neighbor; then the name of n.
RECURSIVE Render(_, _)
RECURSIVE RenderChildren(_, _, _)
RenderChildren(n, parent, places) ==
  IF places = <<>> THEN <<>>
  ELSE LET i == Head(places)
           child == neigh[n][i]
           e == br[n][i]
       IN Render(child, n)
            \o (IF support[e] = Absent THEN <<>> ELSE FormatFloat(support[e]))
            \o Bracketed(comment[child])
            \o (IF length[e] = Absent THEN <<>> ELSE <<":">> \o FormatFloat(length[e]))
            \o (IF Tail(places) = <<>> THEN <<>> ELSE <<",">>)
            \o RenderChildren(n, parent, Tail(places))

Render(n, parent) ==
  LET children == RenderChildren(n, parent, Ascending(ChildPlaces(n, parent)))
  IN (IF Len(neigh[n]) > 1 THEN <<"(">> \o children \o <<")">> ELSE children) \o name[n]

\* The nodes reached from the node n without passing through the node parent.
RECURSIVE Grow(_, _)
Grow(R, parent) ==
  LET more == R \cup {m \in DOMAIN neigh \ {parent} :
                        \E n \in R : \E i \in 1 .. Len(neigh[n]) : neigh[n][i] = m}
  IN IF more = R THEN R ELSE Grow(more, parent)

Reach(n, parent) == Grow({n}, parent)

\* C15, as the code has it: Newick writes an opening and a closing
\* parenthesis around the children of n iff n has more than one neighbor, the
\* came-from node counted; a node with the parent and exactly one child is
\* written with parentheses.
C15_ParenthesesByNeighbors ==
  /\ \A k \in 1 .. Len(entered) : entered[k].open <=> Len(neigh[entered[k].n]) > 1
  /\ \A k \in 1 .. Len(returned) : returned[k].close <=> Len(neigh[returned[k].n]) > 1

\* C15, as claimed: Newick writes an opening and a closing parenthesis around
\* the children of n iff n has more than one neighbor other than the
\* came-from node; a node with the parent and exactly one child is written
\* without parentheses.
C15_ParenthesesByChildren ==
  \A k \in 1 .. Len(entered) :
    entered[k].open <=> Cardinality(ChildPlaces(entered[k].n, entered[k].parent)) > 1

\* Newick has returned from a node with the parent and exactly one child.
C15_Witness ==
  \E k \in 1 .. Len(entered) : \E j \in 1 .. Len(returned) :
    /\ returned[j].n = entered[k].n
    /\ Len(neigh[entered[k].n]) = 2
    /\ Cardinality(ChildPlaces(entered[k].n, entered[k].parent)) = 1
    /\ entered[k].open
    /\ returned[j].close

\* C16: for every traversed child Newick writes the child's rendering, the
\* support of the connecting edge if it is not -1, each comment of the child
\* in brackets in stored order, and a colon and the length of the edge if it
\* is not -1; the children are separated by commas in the order of the
\* neighbor list, the edge of the child at index i is the one at index i of
\* the edge list, and the node's own name comes last, nothing after the name
\* of the start node.
C16_RenderingOrder == \A k \in 1 .. Len(outs) : outs[k] = Render(start, from)

\* A call has returned from a start node with two traversal children, every
\* edge with a support and a length, and comments on a child.
C16_Witness ==
  /\ outs # <<>>
  /\ Cardinality(ChildPlaces(start, from)) >= 2
  /\ \A e \in DOMAIN support : support[e] # Absent /\ length[e] # Absent
  /\ \E i \in ChildPlaces(start, from) : comment[neigh[start][i]] # <<>>

\* C17: a call of Newick changes no field of a node or an edge, so calls with
\* the same start node and came-from node on the same acyclic tree write the
\* same output, and each call ends having written every node reachable
\* without passing through the came-from node exactly once.
C17_PureRead ==
  /\ [][UNCHANGED <<graph, fields>>]_vars
  /\ [](\A j, k \in 1 .. Len(outs) : outs[j] = outs[k])
  /\ []((stack = <<>> /\ outs # <<>>) =>
          /\ {returned[k].n : k \in 1 .. Len(returned)} = Reach(start, from)
          /\ Len(returned) = Cardinality(Reach(start, from)))
  /\ <>(Len(outs) = MaxCalls)

\* Two calls have returned from a tree with comments, the start node having a
\* came-from node and a traversal child.
C17_Witness ==
  /\ Len(outs) = MaxCalls
  /\ from # Nil
  /\ Cardinality(Reach(start, from)) >= 2
  /\ \E n \in Reach(start, from) \ {start} : comment[n] # <<>>

\* ------------------------------------------------------------ readTrees
\* The trees of the input file.
MaxTrees == 3

\* make(chan tree.Trees, 15)
ChanCap == 15

\* What the reader finds at one place of the input: a tree, a tree that does
\* not parse, or one that does not parse and ends the reading.
Entries == {"tree", "error", "fatal"}

ErrRead == E("reading the tree failed")
ErrRename == E("renaming the tree failed")

RECURSIVE Inputs(_)
Inputs(n) ==
  IF n = 0 THEN {<<>>}
  ELSE Inputs(n - 1) \cup {Append(f, x) : f \in {g \in Inputs(n - 1) : Len(g) = n - 1}, x \in Entries}

\* readTrees (lines 95-106) has returned the channel to the command c, which
\* starts to range over it; the goroutine reads an input of at most n trees.
InitPipe(n) ==
  /\ infile \in Inputs(n)
  /\ reader = "reading"
  /\ intreesChan = <<>>
  /\ closed = FALSE
  /\ exited = FALSE
  /\ cmd \in {"matrix", "rename"}
  /\ consumer = "range"
  /\ cur = NoItem
  /\ published = <<>>
  /\ got = <<>>
  /\ used = {}
  /\ NoNodes
  /\ NoTools
  /\ NewParser({}, 0)

\* utils.ReadCompTrees sends the next tree, or the error of reading it, to
\* the channel; it waits while the channel is full, and returns the error
\* after sending it if the reading ends there.
Publish ==
  /\ ~exited
  /\ reader = "reading"
  /\ infile # <<>>
  /\ Len(intreesChan) < ChanCap
  /\ LET item == Item(Len(published) + 1, IF Head(infile) = "tree" THEN NoErr ELSE ErrRead)
     IN /\ intreesChan' = Append(intreesChan, item)
        /\ published' = Append(published, item)
  /\ infile' = Tail(infile)
  /\ reader' = IF Head(infile) = "fatal" THEN "failed" ELSE "reading"
  /\ UNCHANGED <<closed, exited, cmd, consumer, cur, got, used, nodes, render, parser, tools>>

\* utils.ReadCompTrees returns nil at the end of the input.
ReadEnd ==
  /\ ~exited
  /\ reader = "reading"
  /\ infile = <<>>
  /\ reader' = "read"
  /\ UNCHANGED <<infile, intreesChan, closed, exited, cmd, consumer, cur, published, got,
                 used, nodes, render, parser, tools>>

\* Lines 100-102: io.ExitWithMessage(err) ends the process.
ProducerExit ==
  /\ ~exited
  /\ reader = "failed"
  /\ exited' = TRUE
  /\ reader' = "exited"
  /\ UNCHANGED <<infile, intreesChan, closed, cmd, consumer, cur, published, got, used,
                 nodes, render, parser, tools>>

\* Line 103: close(intreesChan).
ProducerClose ==
  /\ ~exited
  /\ reader = "read"
  /\ closed' = TRUE
  /\ reader' = "closed"
  /\ UNCHANGED <<infile, intreesChan, exited, cmd, consumer, cur, published, got, used,
                 nodes, render, parser, tools>>

\* for t := range ...: the next item is received (matrix.go line 15,
\* part_000 line 88).
Receive ==
  /\ ~exited
  /\ consumer = "range"
  /\ intreesChan # <<>>
  /\ cur' = Head(intreesChan)
  /\ intreesChan' = Tail(intreesChan)
  /\ got' = Append(got, Head(intreesChan))
  /\ consumer' = "body"
  /\ UNCHANGED <<infile, reader, closed, exited, cmd, published, used, nodes, render, parser, tools>>

\* The range loop ends when the channel is closed and empty.
RangeEnd ==
  /\ ~exited
  /\ consumer = "range"
  /\ intreesChan = <<>>
  /\ closed
  /\ consumer' = "done"
  /\ UNCHANGED <<infile, reader, intreesChan, closed, exited, cmd, cur, published, got, used,
                 nodes, render, parser, tools>>

\* matrix.go lines 16-25: the body calls t.Tree.Tips() and
\* t.Tree.ToDistanceMatrix(); on a nil Tree the call ends the process.
MatrixBody ==
  /\ ~exited
  /\ cmd = "matrix"
  /\ consumer = "body"
  /\ used' = used \cup {Len(got)}
  /\ IF cur.tree = 0
     THEN consumer' = "panic" /\ exited' = TRUE
     ELSE consumer' = "range" /\ UNCHANGED exited
  /\ UNCHANGED <<infile, reader, intreesChan, closed, cmd, cur, published, got, nodes,
                 render, parser, tools>>

\* part_000 lines 89-120: the body ends the process for an item with an
\* error or when Rename fails, and calls tr.Tree.Rename and tr.Tree.Newick
\* otherwise.
RenameBody ==
  /\ ~exited
  /\ cmd = "rename"
  /\ consumer = "body"
  /\ IF cur.err # NoErr
     THEN consumer' = "exit" /\ exited' = TRUE /\ UNCHANGED used
     ELSE /\ used' = used \cup {Len(got)}
          /\ \E err2 \in {NoErr, ErrRename} :
               IF err2 # NoErr
               THEN consumer' = "exit" /\ exited' = TRUE
               ELSE consumer' = "range" /\ UNCHANGED exited
  /\ UNCHANGED <<infile, reader, intreesChan, closed, cmd, cur, published, got, nodes,
                 render, parser, tools>>

Producer ==
  \/ Publish
  \/ ReadEnd
  \/ ProducerExit
  \/ ProducerClose

Consumer ==
  \/ Receive
  \/ RangeEnd
  \/ MatrixBody
  \/ RenameBody

NextPipe ==
  \/ Publish
  \/ ReadEnd
  \/ ProducerExit
  \/ ProducerClose
  \/ Receive
  \/ RangeEnd
  \/ MatrixBody
  \/ RenameBody

PipeSpec == InitPipe(MaxTrees) /\ [][NextPipe]_vars

\* The goroutine and the command each take their next step if they can.
FairPipeSpec ==
  InitPipe(MaxTrees) /\ [][NextPipe]_vars /\ WF_vars(Producer) /\ WF_vars(Consumer)

\* ------------------------------------------------------------ properties of readTrees
\* C18: the goroutine started by readTrees eventually closes the channel in
\* every execution, when the input is exhausted and when ReadCompTrees
\* returns an error, so that the loop of a command ranging over the channel
\* ends after it received every published item in publication order.
\* A command that ends the process itself is not held against the goroutine.
C18_ChannelClosed ==
  /\ <>(closed \/ consumer \in {"exit", "panic"})
  /\ <>(consumer \in {"done", "exit", "panic"})
  /\ [](consumer = "done" => got = published)

\* C19: a command never uses the Tree of an item whose Err is set and goes
\* on to receive the following items after such an item; this holds for the
\* loop of matrix and for the loop of rename.
C19_ErrorEndsThatTreeOnly ==
  \A k \in 1 .. Len(got) :
    got[k].err # NoErr =>
      /\ k \notin used
      /\ ~(k = Len(got) /\ consumer \in {"exit", "panic"})

\* ------------------------------------------------------------ properties of parseTrees
\* C20: in a TREES block a command TREE name = body; whose body is a
\* sequence of identifier and numeric tokens is accepted without error and
\* its raw tree string is the concatenation of the literals of the body
\* tokens in order: no such token sets the error, and each is appended.
C20_TreeBodyTokens ==
  [][(pc = "treeBody" /\ tok4.tok \in {"IDENT", "NUMERIC"} /\ err = NoErr) =>
       (err' = NoErr /\ tree' = tree \o tok4.lit)]_vars

\* ------------------------------------------------------------ Parser.scan, Parser.unscan
\* The Parser's buffer on its own, lines 15-57.  The underlying scanner is
\* the environment: it hands out the tokens of stream one by one, whatever
\* they are, and EOF for ever after them.
MaxStream == 3
MaxOps == 5

LexTokens == {WsTok, Tok("IDENT", LitA), Tok("IDENT", LitB)}

\* p.s.Scan() after k tokens were read.
Scanner_Scan(k) == IF k < Len(stream) THEN stream[k + 1] ELSE EofTok

\* Lines 31-44, on the buffer b after k tokens were read: the token scan()
\* returns, the buffer and the number of tokens read after the call.
Parser_scan_keepsN(b, k) ==
  IF b.n # 0 THEN [tok |-> b.tok, buf |-> b, pos |-> k]
  ELSE [tok |-> Scanner_Scan(k), buf |-> [tok |-> Scanner_Scan(k), n |-> 0], pos |-> k + 1]

Parser_scan(b, k) ==
  IF b.n # 0 THEN [tok |-> b.tok, buf |-> [b EXCEPT !.n = 0], pos |-> k]
  ELSE [tok |-> Scanner_Scan(k), buf |-> [tok |-> Scanner_Scan(k), n |-> 0], pos |-> k + 1]

\* NewParser on a scanner of at most n tokens.
InitLexer(n) ==
  /\ stream \in UNION {[1 .. m -> LexTokens] : m \in 0 .. n}
  /\ pos = 0
  /\ pbuf = [tok |-> ZeroTok, n |-> 0]
  /\ ret = NoRet
  /\ ops = <<>>
  /\ out = <<>>
  /\ NoRenamer
  /\ NoNodes
  /\ NoPipe
  /\ NewParser({}, 0)

\* A call of p.scan(), lines 31-44.
CallScan ==
  /\ Len(ops) < MaxOps
  /\ LET r == Parser_scan(pbuf, pos)
     IN /\ pbuf' = r.buf
        /\ pos' = r.pos
        /\ ret' = [op |-> "scan", tok |-> r.tok]
        /\ ops' = Append(ops, "scan")
        /\ out' = Append(out, r.tok)
  /\ UNCHANGED <<stream, renamer, nodes, render, pipe, parser>>

\* A call of p.unscan(), line 48.
CallUnscan ==
  /\ Len(ops) < MaxOps
  /\ pbuf' = [pbuf EXCEPT !.n = 1]
  /\ ret' = [op |-> "unscan", tok |-> ZeroTok]
  /\ ops' = Append(ops, "unscan")
  /\ UNCHANGED <<stream, pos, out, renamer, nodes, render, pipe, parser>>

\* A call of p.scanIgnoreWhitespace(), lines 51-57: one scan, and one more
\* if the first returned whitespace.
CallScanIgnoreWhitespace ==
  /\ Len(ops) + 1 < MaxOps
  /\ LET r1 == Parser_scan(pbuf, pos)
         r2 == Parser_scan(r1.buf, r1.pos)
     IN IF r1.tok.tok = "WS"
        THEN /\ pbuf' = r2.buf
             /\ pos' = r2.pos
             /\ ret' = [op |-> "scanIgnoreWhitespace", tok |-> r2.tok]
             /\ ops' = ops \o <<"scan", "scan">>
             /\ out' = out \o <<r1.tok, r2.tok>>
        ELSE /\ pbuf' = r1.buf
             /\ pos' = r1.pos
             /\ ret' = [op |-> "scanIgnoreWhitespace", tok |-> r1.tok]
             /\ ops' = Append(ops, "scan")
             /\ out' = Append(out, r1.tok)
  /\ UNCHANGED <<stream, renamer, nodes, render, pipe, parser>>

NextLexer ==
  \/ CallScan
  \/ CallUnscan
  \/ CallScanIgnoreWhitespace

LexerSpec == InitLexer(MaxStream) /\ [][NextLexer]_vars

\* ------------------------------------------------------------ properties of the Parser's buffer
\* C21: scanIgnoreWhitespace never returns a whitespace token, for every
\* token stream, one with two or more whitespace tokens in a row included:
\* it consumes all the whitespace tokens in front of the next token that is
\* not whitespace and returns that token.
C21_NeverWhitespace ==
  ret.op = "scanIgnoreWhitespace" => ret.tok.tok # "WS"

\* The calls of scan() among the first i calls, and those of them that read
\* the scanner: the first call and the calls that follow a call of scan().
NumScans(i) == Cardinality({m \in 1 .. i : ops[m] = "scan"})
Fresh(i) == ops[i] = "scan" /\ (i = 1 \/ ops[i - 1] = "scan")
NumFresh(i) == Cardinality({m \in 1 .. i : Fresh(m)})

\* C22: the push-back holds exactly one token.  After scan() returned t, a
\* scan() that follows one or several calls of unscan() returns t again and
\* does not read the scanner, and the scan() after it reads the next token
\* of the scanner; the calls of scan() that do not follow an unscan() return
\* the tokens of the scanner in document order, none skipped or repeated.
C22_PushBackOfOne ==
  (ops # <<>> /\ ops[1] = "scan") =>
    /\ pos = NumFresh(Len(ops))
    /\ \A i \in 1 .. Len(ops) :
         ops[i] = "scan" =>
           out[NumScans(i)] = IF Fresh(i) THEN Scanner_Scan(NumFresh(i) - 1)
                              ELSE out[NumScans(i) - 1]

\* scan, unscan twice, scan, scan on a stream of two different tokens.
C22_Witness ==
  /\ ops = <<"scan", "unscan", "unscan", "scan", "scan">>
  /\ out[1] = out[2]
  /\ out[3] # out[2]
  /\ pos = 2

\* ------------------------------------------------------------ rename --auto
\* The loop of renameCmd.Run (cmd rename, lines 87-121) in automatic mode,
\* after lines 60-80.  The trees come from the channel of readTrees; the
\* nodes of a tree are handed over one by one, in the order of
\* tr.Tree.Nodes(), as the loop of line 94 reaches them.
MaxRenTrees == 2
MaxRenNodes == 2

\* --length as given on the command line.
RenLengths == {4, 6}

\* The nodes of the input trees: tips and internal nodes, named or not.
RenNodes ==
  {[name |-> nm, tip |-> TRUE] : nm \in {<<"a">>, <<"0">>}}
    \cup {[name |-> nm, tip |-> FALSE] : nm \in {<<>>, <<"1">>}}

\* fmt.Sprintf("%c%%0%dd", prefix, w) applied to id: the prefix and the
\* decimal digits of id, with zeros in front up to w digits.
Sprintf(prefix, w, id) ==
  LET d == Digits(id)
  IN <<prefix>> \o (IF Len(d) < w THEN [i \in 1 .. w - Len(d) |-> "0"] ELSE <<>>) \o d

\* The map m with the entry k -> v added.
Put(m, k, v) == [x \in DOMAIN m \cup {k} |-> IF x = k THEN v ELSE m[x]]

\* Lines 60-87: the flags, the empty map, the counter.
InitRename(n) ==
  /\ namemap = <<>>
  /\ curid = 1
  /\ \E l \in RenLengths : autorenamelength = IF l < 5 THEN 5 ELSE l
  /\ flags \in {f \in [tips : BOOLEAN, internal : BOOLEAN] : f.tips \/ f.internal}
  /\ intrees \in 0 .. n
  /\ todo = 0
  /\ index = 0
  /\ step = "range"
  /\ ids = {}
  /\ NoLexer
  /\ NoNodes
  /\ NoPipe
  /\ NewParser({}, 0)

\* Lines 88-91 and 94: the next item of the channel, a tree of k nodes or
\* an error, which ends the process.
AutoRenameReceive ==
  /\ step = "range"
  /\ intrees > 0
  /\ intrees' = intrees - 1
  /\ \/ step' = "exit" /\ UNCHANGED <<todo, index>>
     \/ \E k \in 1 .. MaxRenNodes : step' = "nodes" /\ todo' = k /\ index' = 0
  /\ UNCHANGED <<namemap, curid, autorenamelength, flags, ids, lexer, nodes, render, pipe,
                 parser>>

\* Lines 94-112: the body of the loop for the node t at place i.
AutoRenameNode ==
  /\ step = "nodes"
  /\ todo > 0
  /\ \E t \in RenNodes :
       LET taken == (flags.tips /\ t.tip) \/ (flags.internal /\ ~t.tip)
           tname == IF ~t.tip /\ t.name = <<>> THEN Digits(index) ELSE t.name
           newname == Sprintf(IF t.tip THEN "T" ELSE "N", autorenamelength - 1, curid)
       IN IF ~taken
          THEN /\ step' = "nodes" /\ todo' = todo - 1 /\ index' = index + 1
               /\ UNCHANGED <<namemap, curid, ids>>
          ELSE IF tname \in DOMAIN namemap
          THEN /\ step' = "nodes" /\ todo' = todo - 1 /\ index' = index + 1
               /\ ids' = ids \cup {[orig |-> t.name, id |-> namemap[tname]]}
               /\ UNCHANGED <<namemap, curid>>
          ELSE IF Len(newname) # autorenamelength
          THEN /\ step' = "exit"
               /\ UNCHANGED <<namemap, curid, todo, index, ids>>
          ELSE /\ step' = "nodes" /\ todo' = todo - 1 /\ index' = index + 1
               /\ namemap' = Put(namemap, tname, newname)
               /\ curid' = curid + 1
               /\ ids' = ids \cup {[orig |-> t.name, id |-> newname]}
  /\ UNCHANGED <<autorenamelength, flags, intrees, lexer, nodes, render, pipe, parser>>

\* Lines 115-120: Rename with the map, which may fail and end the process,
\* and the tree written.
AutoRenameTree ==
  /\ step = "nodes"
  /\ todo = 0
  /\ step' \in {"range", "exit"}
  /\ UNCHANGED <<namemap, curid, autorenamelength, flags, intrees, todo, index, ids, lexer,
                 nodes, render, pipe, parser>>

\* Lines 121-127: the channel is closed and empty; the map is written.
AutoRenameEnd ==
  /\ step = "range"
  /\ intrees = 0
  /\ step' = "done"
  /\ UNCHANGED <<namemap, curid, autorenamelength, flags, intrees, todo, index, ids, lexer,
                 nodes, render, pipe, parser>>

NextRename ==
  \/ AutoRenameReceive
  \/ AutoRenameNode
  \/ AutoRenameTree
  \/ AutoRenameEnd

RenameSpec == InitRename(MaxRenTrees) /\ [][NextRename]_vars

\* ------------------------------------------------------------ properties of rename --auto
\* The map only grows and a name in it keeps its identifier; a new entry
\* is made for a name that was not in the map, from the counter, which
\* goes up by one with it; the counter starts at 1 and two names of the map
\* never have the same identifier.
MapOnlyGrows ==
  /\ \A k \in DOMAIN namemap : k \in DOMAIN namemap' /\ namemap'[k] = namemap[k]
  /\ \A k \in DOMAIN namemap' \ DOMAIN namemap :
       /\ DOMAIN namemap' = DOMAIN namemap \cup {k}
       /\ namemap'[k] \in {Sprintf(c, autorenamelength - 1, curid) : c \in {"T", "N"}}
       /\ curid' = curid + 1
  /\ curid' = 1 + Cardinality(DOMAIN namemap')
  /\ \A k1, k2 \in DOMAIN namemap' : k1 # k2 => namemap'[k1] # namemap'[k2]

C23_MapOnlyGrows == [][MapOnlyGrows]_vars

\* C23: in automatic rename mode, over the whole run and all the input
\* trees, two different original names never receive the same generated
\* identifier (the name map only grows, a name in it keeps its identifier
\* and each new name gets one from a counter that starts at 1 and only
\* goes up).
C23_DistinctIdentifiers ==
  \A x, y \in ids : x.orig # y.orig => x.id # y.id

\* ------------------------------------------------------------ properties of DIMENSIONS
\* C24: in a DIMENSIONS command a token other than = directly after NTAX or
\* NCHAR always aborts the parse with an error, whatever token follows it,
\* and so does a token that is not a number where the value is expected: no
\* such error is overwritten or lost.  The step that reads the value either
\* makes Parse return an error, or no error was pending and it read an
\* integer.
C24_DimensionsErrorsAbort ==
  [][(pc = "dimVal") =>
       \/ Rejected'
       \/ err = NoErr /\ (IF key = "NTAX" THEN ntax' ELSE nchar') > 0]_vars

\* ------------------------------------------------------------ properties of repeated blocks
\* C25: when a document holds several blocks of one kind, only the last one
\* counts.  The step that enters a TREES block starts with no trees, the
\* one that enters a TAXA block with the empty label set and the one that
\* enters a DATA block with no rows, NTAX and NCHAR not given and the
\* default datatype, gap and missing character; what a kind of block has
\* collected changes in no step but those of a running block of that kind.
\* What Parse checks and returns is therefore what the last block of each
\* kind has set.
C25_LastBlockCounts ==
  [][/\ (pc = "blockSemi" /\ pc' = "trees") => (treenames' = <<>> /\ treestrings' = <<>>)
     /\ (pc = "blockSemi" /\ pc' = "taxa") => (taxlabels' = {})
     /\ (pc = "blockSemi" /\ pc' = "data") =>
          /\ names' = <<>> /\ sequences' = <<>>
          /\ ntax' = -1 /\ nchar' = -1
          /\ datatype' = LitDna
          /\ gap' = DefaultChar("GAP") /\ missing' = DefaultChar("MISSING")
     /\ (trees' # trees) => (block' = "trees")
     /\ (taxa' # taxa) => (block' = "taxa")
     /\ (data' # data) => (block' = "data")]_vars

\* C25, witness: a document is accepted in which a DATA block declared
\* another gap or missing character and a later DATA block left the
\* defaults in effect.
C25_Witness == pc = "done" /\ Accepted /\ dataDecl /\ nonDefault /\ DefaultsInEffect

\* ------------------------------------------------------------ properties of a TAXA block without labels
\* C26: a TAXA block without a TAXLABELS command still declares a label
\* set, the empty one.  When Parse returns with that declaration in effect
\* and the document has a matrix row or a tree, Parse fails, and it fails
\* for the labels when the checks that do not read the labels pass; without
\* a TAXA block no error comes from a check against the labels.
C26_EmptyLabelSet ==
  pc = "done" =>
    /\ (taxaDecl /\ taxlabels = {}
          /\ ((dataDecl /\ Len(names) > 0) \/ (treesDecl /\ Len(treestrings) > 0))) =>
         /\ Rejected
         /\ (CheckedAfterLoop /\ ChecksWithoutLabelsPass) => resErr.msg \in LabelErrors
    /\ ~taxaDecl => resErr.msg \notin LabelErrors

\* C26, witness: a matrix with a row is refused for its first name after a
\* TAXA block that declared no label.
C26_Witness ==
  /\ pc = "done" /\ taxaDecl /\ taxlabels = {}
  /\ dataDecl /\ Len(names) > 0
  /\ Rejected /\ resErr.msg = "seqlabel"

====
